---- MODULE Spec2Model ----
(***************************************************************************)
(* A model of the travel assistant's dialogue core: the /chat handler      *)
(* (app/server.py), the LangGraph nodes node_master_llm, node_flights,     *)
(* node_hotels, node_cabs and node_covid (app/graph/graph.py), the planner *)
(* plan_next_step (app/llm/dialogue_manager.py), the agents and the        *)
(* providers' post-processing of what the external APIs return.            *)
(*                                                                         *)
(* A text is a sequence of one-character strings, so that strip(), lower() *)
(* and the substring / word tests of the code are computed, not assumed.   *)
(* A Python dict with string keys is a function over the keys the program  *)
(* uses; ABSENT marks a key that is not in the dict and NONE the value     *)
(* None.                                                                   *)
(***************************************************************************)
EXTENDS Integers, Sequences, FiniteSets, TLC

VARIABLES
    conv,       \* Conversation.context of the one conversation row (the persisted memory)
    messages,   \* the rows of the messages table of that conversation, in insertion order
    pc,         \* where the request in flight is: idle, master, a domain node, END, raised
    state,      \* the TravelState of the request in flight
    turns,      \* number of /chat requests accepted so far
    last        \* the TravelState the last finished request ended with (observation only)

vars == <<conv, messages, pc, state, turns, last>>

----------------------------------------------------------------------------
(* Bounds *)

MaxTurns == 3

----------------------------------------------------------------------------
(* Python values *)

ABSENT == "<absent>"
NONE == "<None>"

\* Python truthiness of a string-or-None value read with dict.get
Falsy(v) == v \in {ABSENT, NONE, ""}

\* x or y
Or(x, y) == IF Falsy(x) THEN y ELSE x

\* hist[-n:]
LastN(s, n) == IF Len(s) <= n THEN s ELSE SubSeq(s, Len(s) - n + 1, Len(s))

\* s[:n]
FirstN(s, n) == IF Len(s) <= n THEN s ELSE SubSeq(s, 1, n)

----------------------------------------------------------------------------
(* Texts *)

Space == " "

\* the letters of the inputs, upper case and lower case
Letters ==
    { <<"A", "a">>, <<"C", "c">>, <<"D", "d">>, <<"E", "e">>, <<"H", "h">>, <<"J", "j">>,
      <<"K", "k">>, <<"N", "n">>, <<"O", "o">>, <<"P", "p">>, <<"R", "r">>, <<"S", "s">>,
      <<"T", "t">>, <<"U", "u">>, <<"W", "w">>, <<"Y", "y">> }

Upper == { p[1] : p \in Letters }

\* str.lower() on one character, over the alphabet the inputs use
LowerChar(c) == IF c \in Upper THEN (CHOOSE p \in Letters : p[1] = c)[2] ELSE c

lower(t) == [i \in 1..Len(t) |-> LowerChar(t[i])]

\* the characters str.strip() removes, of those the inputs use
Whitespace == {Space, "\t", "\n"}

RECURSIVE lstrip(_)
lstrip(t) == IF t # <<>> /\ Head(t) \in Whitespace THEN lstrip(Tail(t)) ELSE t

RECURSIVE rstrip(_)
rstrip(t) ==
    IF t # <<>> /\ t[Len(t)] \in Whitespace THEN rstrip(SubSeq(t, 1, Len(t) - 1)) ELSE t

\* str.strip()
strip(t) == lstrip(rstrip(t))

\* w in t (substring)
Contains(t, w) ==
    \E i \in 1..(Len(t) - Len(w) + 1) : SubSeq(t, i, i + Len(w) - 1) = w

WordChars ==
    {"a", "b", "c", "d", "e", "f", "g", "h", "i", "j", "k", "l", "m", "n", "o",
     "p", "q", "r", "s", "t", "u", "v", "w", "x", "y", "z",
     "0", "1", "2", "3", "4", "5", "6", "7", "8", "9", "_"} \cup Upper

\* re.search(r"\b(w)\b", t) for a word w of word characters
ContainsWord(t, w) ==
    \E i \in 1..(Len(t) - Len(w) + 1) :
        /\ SubSeq(t, i, i + Len(w) - 1) = w
        /\ (i = 1 \/ t[i - 1] \notin WordChars)
        /\ (i + Len(w) > Len(t) \/ t[i + Len(w)] \notin WordChars)

T_yes == <<"y", "e", "s">>
T_y == <<"y">>
T_sure == <<"s", "u", "r", "e">>
T_ok == <<"o", "k">>
T_okay == <<"o", "k", "a", "y">>
T_haan == <<"h", "a", "a", "n">>
T_yeah == <<"y", "e", "a", "h">>
T_yep == <<"y", "e", "p">>
T_ha == <<"h", "a">>
T_ji == <<"j", "i">>
T_please_do == <<"p", "l", "e", "a", "s", "e", " ", "d", "o">>
T_no == <<"n", "o">>
T_na == <<"n", "a">>
T_not_now == <<"n", "o", "t", " ", "n", "o", "w">>
T_dont == <<"d", "o", "n", "t">>
T_don_t == <<"d", "o", "n", "'", "t">>
T_n == <<"n">>
T_nope == <<"n", "o", "p", "e">>
T_nah == <<"n", "a", "h">>
T_hotel == <<"h", "o", "t", "e", "l">>
T_hotels == <<"h", "o", "t", "e", "l", "s">>
T_covid == <<"c", "o", "v", "i", "d">>
T_cases == <<"c", "a", "s", "e", "s">>
T_corona == <<"c", "o", "r", "o", "n", "a">>
T_jan20 == <<"j", "a", "n", " ", "2", "0", " ", "2", "0", "2", "6">>

\* a test for the yes-words as they are written, in lower case
_looks_like_yes_cased(txt) ==
    LET t == strip(txt)
    IN  t \in {T_yes, T_y, T_sure, T_ok, T_okay, T_haan, T_yeah, T_yep}

_looks_like_yes(txt) ==
    LET t == lower(strip(txt))
    IN  t \in {T_yes, T_y, T_sure, T_ok, T_okay, T_haan, T_yeah, T_yep}

_looks_like_no(txt) ==
    LET t == lower(strip(txt))
    IN  t \in {T_no, T_n, T_nope, T_nah}

_wants_covid(txt) ==
    LET t == lower(strip(txt))
    IN  Contains(t, T_covid) \/ Contains(t, T_cases) \/ Contains(t, T_corona)

_wants_hotel(txt) ==
    LET t == lower(strip(txt))
    IN  Contains(t, T_hotel) \/ _looks_like_yes(t)

\* dtparser.parse(text, fuzzy=False, dayfirst=True).date().isoformat(), None when it
\* raises: of the texts tried here only the month-day-year one parses
parse_single_date(text) == IF lower(strip(text)) = T_jan20 THEN "2026-01-20" ELSE NONE

extract_checkout_if_only_date(user_text) == parse_single_date(user_text)

\* intent.py
YES == {T_yes, T_y, T_yeah, T_yep, T_sure, T_ok, T_okay, T_haan, T_ha}

NO == {T_no, T_n, T_nope, T_nah, T_na}

normalize_yes_no(text) ==
    LET t == lower(strip(text))
    IN  IF t \in YES THEN "yes" ELSE IF t \in NO THEN "no" ELSE NONE

----------------------------------------------------------------------------
(* Slots, results, replies, the conversation context *)

SlotKeys ==
    {"origin", "destination", "date", "city", "checkin", "checkout",
     "pickup", "dropoff", "country", "destination_country",
     "destination_country_code", "destination_iata"}

\* {}
EmptySlots == [k \in SlotKeys |-> ABSENT]

\* the dict holding exactly the key/value pairs of the set kv of <<key, value>>
SlotsOf(kv) ==
    [k \in SlotKeys |->
        IF \E p \in kv : p[1] = k THEN (CHOOSE p \in kv : p[1] = k)[2] ELSE ABSENT]

\* d.keys()
Keys(d) == {k \in SlotKeys : d[k] # ABSENT}

\* d.get(k)
Get(d, k) == IF d[k] = ABSENT THEN NONE ELSE d[k]

\* d.update(e)
Update(d, e) == [k \in SlotKeys |-> IF e[k] # ABSENT THEN e[k] ELSE d[k]]

\* d.setdefault(k, v): an existing key keeps its value, None included
SetDefault(d, k, v) == IF d[k] # ABSENT THEN d ELSE [d EXCEPT ![k] = v]

\* a node that takes no slot for missing
Missing_none(required, s) == <<>>

\* [k for k in required if not s.get(k)]
Missing(required, s) == SelectSeq(required, LAMBDA k : Falsy(s[k]))

InSeq(x, s) == \E i \in 1..Len(s) : s[i] = x

Domains == {"flights", "hotels", "cabs", "covid"}

NoPrice == -1

\* a price that is given and that float() rejects
BadPrice == -2

\* state["results"] has no entry for the domain
NoResult == [present |-> FALSE, items |-> <<>>, cheapest |-> <<>>, location |-> ""]

\* {}
EmptyResults == [d \in Domains |-> NoResult]

\* an assistant reply: which message of the code it is, and the values it formats in
Reply(kind, text, offer, opts) ==
    [kind |-> kind, text |-> text, offer |-> offer, opts |-> opts]

NoReply == Reply(ABSENT, "", <<>>, <<>>)

\* {"role": role, "content": content}
Entry(role, text, reply) == [role |-> role, text |-> text, reply |-> reply]

UserEntry(text) == Entry("user", text, NoReply)

AssistantEntry(reply) == Entry("assistant", <<>>, reply)

\* Conversation(context={})
EmptyContext ==
    [slots |-> EmptySlots, results |-> EmptyResults, history |-> <<>>,
     last_question_key |-> ABSENT, last_reply |-> NoReply]

HistoryCap == 30

\* hist.append(...); ctx["history"] = hist[-30:]
_ctx_history_append(ctx, entry) ==
    [ctx EXCEPT !.history = LastN(Append(ctx.history, entry), HistoryCap)]

\* a write-back that keeps the results of the memory when the request has none
_persist_context_keeping(st, ctx) ==
    [st EXCEPT !.updated_context =
                   [ctx EXCEPT !.slots = st.slots,
                               !.results = IF st.results = EmptyResults THEN ctx.results
                                           ELSE st.results],
               !.has_updated = TRUE]

\* ctx["slots"] = state.get("slots", {}) or {}; ctx["results"] = state.get("results", {}) or {}
_persist_context(st, ctx) ==
    [st EXCEPT !.updated_context =
                   [ctx EXCEPT !.slots = st.slots, !.results = st.results],
               !.has_updated = TRUE]

\* state["reply"] = q; state["next_question"] = q
SetReply(st, q) == [st EXCEPT !.reply = q]

\* a reply that is remembered as last_reply but not written to the history
Said_unlisted(ctx, q) == [ctx EXCEPT !.last_reply = q]

\* _ctx_history_append(ctx, "assistant", q); ctx["last_reply"] = q
Said(ctx, q) == [_ctx_history_append(ctx, AssistantEntry(q)) EXCEPT !.last_reply = q]

\* the chat model was not called by the request in flight
NoOracle == [kind |-> "none", action |-> NONE, slots |-> [k \in SlotKeys |-> ABSENT],
             ask_user |-> NONE]

\* no exception was raised by a lookup of the request in flight
NoFault == [kind |-> "none", items |-> <<>>, field |-> "", query |-> "", suggestions |-> <<>>]

\* one more external call made by the request in flight
Called(st, what) == [st EXCEPT !.calls = Append(st.calls, what)]

\* the state dict graph.invoke is given by chat()
NewState(text, ctx) ==
    [user_input |-> text, convo_context |-> ctx, llm_action |-> ABSENT,
     slots |-> EmptySlots, results |-> EmptyResults, reply |-> NoReply,
     updated_context |-> EmptyContext, has_updated |-> FALSE,
     raised |-> FALSE, calls |-> <<>>, deltas |-> {}, fault |-> NoFault,
     oracle |-> NoOracle]

----------------------------------------------------------------------------
(* The location-to-country capability and pycountry *)

\* what flights_provider.resolve_location_country(dest) can do: fail, or return a
\* location whose countryCode may be missing
ResolveOutcomes ==
    { [kind |-> "raise", countryCode |-> NONE],
      [kind |-> "loc", countryCode |-> NONE],
      [kind |-> "loc", countryCode |-> "in"] }

\* cc.upper()
UpperCode(cc) == IF cc = "in" THEN "IN" ELSE cc

\* pycountry.countries.get(alpha_2=code): the country's name, or None
CountryName(code) == IF code = "IN" THEN "India" ELSE NONE

\* a resolution that falls back to the destination text when no country is found
_resolve_country_from_destination_guess(st, loc) ==
    LET slots == st.slots
        dest0 == Or(Get(slots, "destination"), "")
        dest == IF dest0 = "" THEN Or(Get(slots, "destination_iata"), "") ELSE dest0
        cc == loc.countryCode
        code == UpperCode(cc)
        country_name == CountryName(code)
        named == [slots EXCEPT !["destination_country_code"] = code,
                               !["destination_country"] = country_name,
                               !["country"] = country_name]
        coded == [slots EXCEPT !["destination_country_code"] = code,
                               !["country"] = code]
    IN  IF dest = "" THEN st
        ELSE IF loc.kind = "raise" \/ Falsy(cc)
        THEN [Called(st, "resolve_country") EXCEPT !.slots = [slots EXCEPT !["country"] = dest]]
        ELSE IF ~Falsy(country_name)
        THEN [Called(st, "resolve_country") EXCEPT
                 !.slots = named,
                 !.deltas = @ \cup {"destination_country_code", "destination_country", "country"}]
        ELSE [Called(st, "resolve_country") EXCEPT
                 !.slots = coded,
                 !.deltas = @ \cup {"destination_country_code", "country"}]

_resolve_country_from_destination(st, loc) ==
    LET slots == st.slots
        dest0 == Or(Get(slots, "destination"), "")
        dest == IF dest0 = "" THEN Or(Get(slots, "destination_iata"), "") ELSE dest0
        cc == loc.countryCode
        code == UpperCode(cc)
        country_name == CountryName(code)
        named == [slots EXCEPT !["destination_country_code"] = code,
                               !["destination_country"] = country_name,
                               !["country"] = country_name]
        coded == [slots EXCEPT !["destination_country_code"] = code,
                               !["country"] = code]
    IN  IF dest = "" THEN st
        ELSE IF loc.kind = "raise" \/ Falsy(cc) THEN Called(st, "resolve_country")
        ELSE IF ~Falsy(country_name)
        THEN [Called(st, "resolve_country") EXCEPT
                 !.slots = named,
                 !.deltas = @ \cup {"destination_country_code", "destination_country", "country"}]
        ELSE [Called(st, "resolve_country") EXCEPT
                 !.slots = coded,
                 !.deltas = @ \cup {"destination_country_code", "country"}]

----------------------------------------------------------------------------
(* The planner: app/llm/dialogue_manager.py *)

Actions == {"flights", "hotels", "cabs", "covid", "ask_user"}

\* a response of the chat model: the call fails, or it returns a content that is
\* not JSON at all, JSON that is not an object, or a JSON object
Llm(kind, action, slots, ask) ==
    [kind |-> kind, action |-> action, slots |-> slots, ask_user |-> ask]

LlmRaise == Llm("raise", NONE, EmptySlots, NONE)

LlmGarbage == Llm("garbage", NONE, EmptySlots, NONE)

LlmList == Llm("list", NONE, EmptySlots, NONE)

T_fly == <<"f", "l", "y">>

T_cab == <<"c", "a", "b">>

FlightSlots ==
    SlotsOf({<<"origin", "Delhi">>, <<"destination", "Mumbai">>, <<"date", "2026-01-15">>})

StaySlots ==
    SlotsOf({<<"city", "Pune">>, <<"checkin", "2026-01-15">>, <<"checkout", "2026-01-20">>})

\* the responses of the chat model that are tried for a user text
LlmOutcomes(text) ==
    CASE text = T_fly ->
           { Llm("dict", "flights", FlightSlots, NONE),
             Llm("dict", "flights", SlotsOf({<<"origin", "Delhi">>}), NONE),
             LlmRaise }
      [] text = T_hotel ->
           { Llm("dict", "hotels", SlotsOf({<<"city", "Pune">>}), NONE),
             Llm("dict", "hotels", StaySlots, NONE) }
      [] text = T_covid ->
           { Llm("dict", "covid", EmptySlots, NONE),
             Llm("dict", "covid", SlotsOf({<<"country", "Nepal">>}), NONE) }
      [] text = T_jan20 ->
           { Llm("dict", "ask_user", SlotsOf({<<"checkout", "2026-01-20">>}), "Which dates?"),
             Llm("dict", "hotels",
                 SlotsOf({<<"checkin", "2026-01-20">>, <<"checkout", "2026-01-20">>}), NONE) }
      [] text = T_cab ->
           { Llm("dict", "cabs",
                 SlotsOf({<<"pickup", "Mumbai Airport">>, <<"dropoff", NONE>>}), NONE),
             Llm("dict", "cabs",
                 SlotsOf({<<"pickup", "Mumbai Airport">>, <<"dropoff", "Taj">>}), NONE) }
      [] text = T_yes ->
           { Llm("dict", "cabs", EmptySlots, NONE),
             Llm("dict", "ask_user", EmptySlots, "Which hotel?") }
      [] OTHER ->
           { LlmRaise, LlmList, LlmGarbage, Llm("dict", "book", EmptySlots, NONE) }

\* json.loads(txt), else the first {...} of txt, else {}
_safe_json_parse(resp) ==
    IF resp.kind = "garbage" THEN Llm("dict", ABSENT, EmptySlots, ABSENT) ELSE resp

_extract_yes_no(t) ==
    LET s == lower(strip(t))
    IN  IF s \in {T_y, T_yes, T_yeah, T_yep, T_sure, T_ok, T_okay, T_haan, T_ha, T_ji,
                   T_please_do}
        THEN "yes"
        ELSE IF s \in {T_n, T_no, T_nope, T_nah, T_not_now, T_dont, T_don_t} THEN "no"
        ELSE IF \E w \in {T_yes, T_yeah, T_yep, T_sure, T_okay, T_ok} : ContainsWord(s, w)
        THEN "yes"
        ELSE IF \E w \in {T_no, T_nope, T_nah} : ContainsWord(s, w) THEN "no"
        ELSE NONE

_extract_choice_hotel_or_covid(t) ==
    LET s == lower(strip(t))
    IN  IF ContainsWord(s, T_hotel) \/ ContainsWord(s, T_hotels) THEN "hotels"
        ELSE IF \E w \in {T_covid, T_cases, T_corona} : ContainsWord(s, w) THEN "covid"
        ELSE NONE

_has_flights(results) == Len(results["flights"].items) > 0

\* a plan, or the exception the call ends with; llm tells whether the chat model was invoked
Plan(action, slots, ask, llm) ==
    [raised |-> FALSE, action |-> action, slots |-> slots, ask_user |-> ask, llm |-> llm]

PlanRaised == [raised |-> TRUE, action |-> NONE, slots |-> EmptySlots, ask_user |-> NONE, llm |-> TRUE]

\* pstate is the dict node_master_llm passes: it has the key "last_question" and no
\* key "last_question_key", so last_key is None
plan_next_step(user_input, pstate, resp) ==
    LET results == pstate.results
        last_key == pstate.last_question_key
        yn == _extract_yes_no(user_input)
        choice == _extract_choice_hotel_or_covid(user_input)
        plan == _safe_json_parse(resp)
        action0 == Or(plan.action, "ask_user")
        action == IF action0 \notin Actions THEN "ask_user" ELSE action0
    IN  IF last_key = "AFTER_FLIGHT_NEXT_STEP"
        THEN IF choice = "covid" THEN Plan("covid", EmptySlots, NONE, FALSE)
             ELSE IF choice = "hotels" THEN Plan("hotels", EmptySlots, NONE, FALSE)
             ELSE IF yn = "yes" THEN Plan("hotels", EmptySlots, NONE, FALSE)
             ELSE IF yn = "no" THEN Plan("ask_user", EmptySlots, "what next", FALSE)
             ELSE Plan("ask_user", EmptySlots, "hotel / covid / no", FALSE)
        ELSE IF _has_flights(results) /\ choice \in {"hotels", "covid"}
        THEN Plan(choice, EmptySlots, NONE, FALSE)
        ELSE IF resp.kind = "raise" THEN PlanRaised
        ELSE IF plan.kind # "dict" THEN PlanRaised
        ELSE Plan(action, plan.slots, plan.ask_user, TRUE)

----------------------------------------------------------------------------
(* The master node: app/graph/graph.py *)

Q_no == Reply("after_flight_no", "", <<>>, <<>>)

Q_unclear == Reply("after_flight_unclear", "", <<>>, <<>>)

\* q = plan.get("ask_user") or "Can you clarify?"
Q_ask(plan) == Reply("ask_user", Or(plan.ask_user, "Can you clarify?"), <<>>, <<>>)

\* a covid choice that also takes the flight's destination as the hotel city
MasterCovid_seeding(st, ctx2, merged, loc) ==
    LET seeded == [merged EXCEPT !["city"] = Get(merged, "destination")]
        s1 == _resolve_country_from_destination([st EXCEPT !.slots = seeded], loc)
    IN  _persist_context([s1 EXCEPT !.llm_action = "covid"], ctx2)

\* the "covid" reply to the after-flight offer
MasterCovid(st, ctx2, merged, loc) ==
    LET s1 == _resolve_country_from_destination([st EXCEPT !.slots = merged], loc)
    IN  _persist_context([s1 EXCEPT !.llm_action = "covid"], ctx2)

\* the "hotel" reply to the after-flight offer: seed hotel slots from flight info
MasterHotel(st, ctx2, merged) ==
    LET m1 == SetDefault(merged, "city", Get(merged, "destination"))
        m2 == SetDefault(m1, "checkin", Get(m1, "date"))
    IN  _persist_context(
            [st EXCEPT !.llm_action = "hotels", !.slots = m2,
                       !.deltas = @ \cup {k \in {"city", "checkin"} : m2[k] # merged[k]}],
            ctx2)

\* a no-word reply that leaves the after-flight question pending
MasterNo_pending(st, ctx2) == _persist_context(SetReply(st, Q_no), Said(ctx2, Q_no))

\* a no-word reply to the after-flight offer
MasterNo(st, ctx2) ==
    _persist_context(SetReply(st, Q_no),
                     [Said(ctx2, Q_no) EXCEPT !.last_question_key = "OPEN_ENDED"])

\* any other reply to the after-flight offer
MasterUnclear(st, ctx2) ==
    _persist_context(SetReply(st, Q_unclear),
                     [Said(ctx2, Q_unclear) EXCEPT !.last_question_key = "AFTER_FLIGHT_NEXT_STEP"])

\* a planner path whose ask_user reply is persisted with the slots of the memory
MasterPlan_askdrops(st, ctx, ctx2, user_text, resp) ==
    LET pstate == [slots |-> ctx.slots, results |-> ctx.results,
                   history |-> IF ctx.history = <<>> THEN <<>>
                               ELSE Append(ctx.history, UserEntry(user_text)),
                   last_reply |-> ctx.last_reply, last_question |-> ctx.last_question_key,
                   last_question_key |-> NONE]
        plan == plan_next_step(user_text, pstate, resp)
        s0 == IF plan.llm THEN [Called(st, "llm") EXCEPT !.oracle = resp] ELSE st
        s1 == [s0 EXCEPT !.llm_action = plan.action,
                         !.slots = Update(ctx.slots, plan.slots),
                         !.deltas = @ \cup Keys(plan.slots)]
        asked == [s1 EXCEPT !.slots = ctx.slots]
    IN  IF plan.raised THEN [s0 EXCEPT !.raised = TRUE]
        ELSE IF plan.action = "ask_user"
        THEN _persist_context(SetReply(asked, Q_ask(plan)),
                              [Said(ctx2, Q_ask(plan)) EXCEPT !.last_question_key = "ASK_USER"])
        ELSE _persist_context(s1, ctx2)

\* the normal path: the planner, the merge of its slots, and the ask_user reply; the
\* history list the planner is given is the one the user message was appended to in
\* place, unless memory had none
MasterPlan(st, ctx, ctx2, user_text, resp) ==
    LET pstate == [slots |-> ctx.slots, results |-> ctx.results,
                   history |-> IF ctx.history = <<>> THEN <<>>
                               ELSE Append(ctx.history, UserEntry(user_text)),
                   last_reply |-> ctx.last_reply, last_question |-> ctx.last_question_key,
                   last_question_key |-> NONE]
        plan == plan_next_step(user_text, pstate, resp)
        s0 == IF plan.llm THEN [Called(st, "llm") EXCEPT !.oracle = resp] ELSE st
        s1 == [s0 EXCEPT !.llm_action = plan.action,
                         !.slots = Update(ctx.slots, plan.slots),
                         !.deltas = @ \cup Keys(plan.slots)]
    IN  IF plan.raised THEN [s0 EXCEPT !.raised = TRUE]
        ELSE IF plan.action = "ask_user"
        THEN _persist_context(SetReply(s1, Q_ask(plan)),
                              [Said(ctx2, Q_ask(plan)) EXCEPT !.last_question_key = "ASK_USER"])
        ELSE _persist_context(s1, ctx2)

\* node_master_llm with the unrecognized after-flight reply handed to the planner
node_master_llm_fallthrough(st, loc, resp) ==
    LET user_text == strip(st.user_input)
        ctx == st.convo_context
        last_q == ctx.last_question_key
        ctx2 == _ctx_history_append(ctx, UserEntry(user_text))
        merged == ctx.slots
    IN  IF last_q = "AFTER_FLIGHT_NEXT_STEP" /\ _wants_covid(user_text)
        THEN MasterCovid(st, ctx2, merged, loc)
        ELSE IF last_q = "AFTER_FLIGHT_NEXT_STEP" /\ _wants_hotel(user_text)
        THEN MasterHotel(st, ctx2, merged)
        ELSE IF last_q = "AFTER_FLIGHT_NEXT_STEP" /\ _looks_like_no(user_text)
        THEN MasterNo(st, ctx2)
        ELSE MasterPlan(st, ctx, ctx2, user_text, resp)

\* node_master_llm with the hotel test before the covid test
node_master_llm_hotelfirst(st, loc, resp) ==
    LET user_text == strip(st.user_input)
        ctx == st.convo_context
        last_q == ctx.last_question_key
        ctx2 == _ctx_history_append(ctx, UserEntry(user_text))
        merged == ctx.slots
    IN  IF last_q = "AFTER_FLIGHT_NEXT_STEP"
        THEN IF _wants_hotel(user_text) THEN MasterHotel(st, ctx2, merged)
             ELSE IF _wants_covid(user_text) THEN MasterCovid(st, ctx2, merged, loc)
             ELSE IF _looks_like_no(user_text) THEN MasterNo(st, ctx2)
             ELSE MasterUnclear(st, ctx2)
        ELSE MasterPlan(st, ctx, ctx2, user_text, resp)

node_master_llm(st, loc, resp) ==
    LET user_text == strip(st.user_input)
        ctx == st.convo_context
        last_q == ctx.last_question_key
        ctx2 == _ctx_history_append(ctx, UserEntry(user_text))
        merged == ctx.slots
    IN  IF last_q = "AFTER_FLIGHT_NEXT_STEP"
        THEN IF _wants_covid(user_text) THEN MasterCovid(st, ctx2, merged, loc)
             ELSE IF _wants_hotel(user_text) THEN MasterHotel(st, ctx2, merged)
             ELSE IF _looks_like_no(user_text) THEN MasterNo(st, ctx2)
             ELSE MasterUnclear(st, ctx2)
        ELSE MasterPlan(st, ctx, ctx2, user_text, resp)

\* state.get("llm_action", "ask_user")
node_route(st) == IF st.llm_action = ABSENT THEN "ask_user" ELSE st.llm_action

----------------------------------------------------------------------------
(* The providers and the agents *)

\* what the Amadeus API does for one search: no location candidate for a field,
\* a ResponseError, or the data of the response
Api(kind, field, raw) == [kind |-> kind, field |-> field, raw |-> raw]

\* what a provider search ends with: a list, UnknownLocationError or RuntimeError
Found(items) == [kind |-> "ok", items |-> items, field |-> "", query |-> "", suggestions |-> <<>>]

UnknownLocationError(field, query, suggestions) ==
    [kind |-> "unknown", items |-> <<>>, field |-> field, query |-> query,
     suggestions |-> suggestions]

RuntimeError == [kind |-> "error", items |-> <<>>, field |-> "", query |-> "", suggestions |-> <<>>]

Offer(id, price) == [id |-> id, price |-> price]

\* x placed after the elements of the sorted s that are not dearer than it
RECURSIVE InsertByPrice(_, _)
InsertByPrice(x, s) ==
    IF s = <<>> THEN <<x>>
    ELSE IF s[Len(s)].price <= x.price THEN Append(s, x)
    ELSE Append(InsertByPrice(x, SubSeq(s, 1, Len(s) - 1)), s[Len(s)])

\* the list left in the order the API gave it
SortedByPrice_asgiven(s) == s

\* sorted(out, key=price): stable
RECURSIVE SortedByPrice(_)
SortedByPrice(s) ==
    IF s = <<>> THEN <<>>
    ELSE InsertByPrice(s[Len(s)], SortedByPrice(SubSeq(s, 1, Len(s) - 1)))

\* if price is None: continue
Priced(raw) == SelectSeq(raw, LAMBDA o : o.price # NoPrice)

\* the offers _parse_offer_price_inr returns a number for
Parsed(raw) == SelectSeq(raw, LAMBDA o : o.price \notin {NoPrice, BadPrice})

\* float(price) raised ValueError: node_flights catches it with the RuntimeError
FloatError == RuntimeError

search_flights(origin, destination, date_iso, api) ==
    IF api.kind = "unknown" /\ api.field = "origin"
    THEN UnknownLocationError("origin", origin, <<>>)
    ELSE IF api.kind = "unknown"
    THEN UnknownLocationError("destination", destination, <<>>)
    ELSE IF api.kind = "error" THEN RuntimeError
    ELSE IF \E i \in 1..Len(api.raw) : api.raw[i].price = BadPrice THEN FloatError
    ELSE Found(SortedByPrice(Priced(api.raw)))

\* one item of the hotel offers response: the hotel and the totals of its offers
HotelItem(name, totals) == [id |-> name, totals |-> totals]

\* the least of the totals that are given (the first of equal ones), None when none is
RECURSIVE CheapestTotal(_)
CheapestTotal(totals) ==
    IF totals = <<>> THEN NoPrice
    ELSE LET rest == CheapestTotal(SubSeq(totals, 1, Len(totals) - 1))
             t == totals[Len(totals)]
         IN  IF t \in {NoPrice, BadPrice} THEN rest
             ELSE IF rest = NoPrice \/ t < rest THEN t
             ELSE rest

\* out.append({...}) for each item that has a priced offer
HotelOffers(raw) == [i \in 1..Len(raw) |-> Offer(raw[i].id, CheapestTotal(raw[i].totals))]

search_hotels(city, checkin, checkout, api) ==
    IF api.kind = "unknown" THEN UnknownLocationError("city", city, <<>>)
    ELSE IF api.kind = "error" THEN RuntimeError
    ELSE Found(SortedByPrice(Priced(HotelOffers(api.raw))))

search_cabs(pickup, dropoff, api) ==
    IF api.kind = "unknown" /\ api.field = "pickup"
    THEN UnknownLocationError("pickup", pickup, <<>>)
    ELSE IF api.kind = "unknown"
    THEN UnknownLocationError("dropoff", dropoff, <<>>)
    ELSE IF api.kind = "error" THEN RuntimeError
    ELSE Found(SortedByPrice(Parsed(api.raw)))

\* provider.search_*(...) of a provider other than the Amadeus ones, which raises
\* the UnknownLocationError it is set up with
stub_search(api, query) == UnknownLocationError(api.field, query, api.raw)

\* cheapest = items[0] if items else None
Cheapest(items) == IF items # <<>> THEN <<items[1]>> ELSE <<>>

\* {"flights": flights, "cheapest": cheapest}
AgentData(items) ==
    [present |-> TRUE, items |-> items, cheapest |-> Cheapest(items), location |-> ""]

run_flights_agent(origin, destination, date_iso, api) ==
    LET r == IF api.kind = "stub"
             THEN stub_search(api, IF api.field = "origin" THEN origin ELSE destination)
             ELSE search_flights(origin, destination, date_iso, api)
    IN  IF r.kind = "ok" THEN [r EXCEPT !.items = <<AgentData(r.items)>>] ELSE r

run_hotels_agent(city, checkin, checkout, api) ==
    LET r == IF api.kind = "stub" THEN stub_search(api, city)
             ELSE search_hotels(city, checkin, checkout, api)
    IN  IF r.kind = "ok" THEN [r EXCEPT !.items = <<AgentData(r.items)>>] ELSE r

run_cabs_agent(pickup, dropoff, api) ==
    LET r == IF api.kind = "stub"
             THEN stub_search(api, IF api.field = "pickup" THEN pickup ELSE dropoff)
             ELSE search_cabs(pickup, dropoff, api)
    IN  IF r.kind = "ok" THEN [r EXCEPT !.items = <<AgentData(r.items)>>] ELSE r

\* bundle.get("country") or location, with cheapest None
run_covid_agent(location, api) ==
    IF api.kind = "error" THEN RuntimeError
    ELSE Found(<<[present |-> TRUE, items |-> <<>>, cheapest |-> <<>>,
                  location |-> Or(api.field, location)]>>)

FlightsApi ==
    { Api("data", "", <<Offer("AI2", 5000), Offer("6E1", 4000), Offer("SG8", 4000)>>),
      Api("data", "", <<Offer("UK3", NoPrice)>>),
      Api("unknown", "destination", <<>>),
      Api("error", "", <<>>) }

HotelsApi ==
    { Api("data", "", <<HotelItem("Taj", <<9500, 9000>>), HotelItem("Ibis", <<NoPrice, 3000>>),
                      HotelItem("Lemon", <<3000>>)>>),
      Api("data", "", <<HotelItem("Oyo", <<NoPrice>>)>>),
      Api("unknown", "city", <<>>),
      Api("error", "", <<>>) }

CabsApi ==
    { Api("data", "", <<Offer("Ola", 700), Offer("Uber", 500), Offer("Meru", NoPrice)>>),
      Api("data", "", <<Offer("Blu", NoPrice)>>),
      Api("unknown", "pickup", <<>>),
      Api("error", "", <<>>) }

\* disease.sh: an error, or the country's figures under the name it knows it by
CovidApi == { Api("error", "", <<>>), Api("data", "", <<>>) }

----------------------------------------------------------------------------
(* The tool nodes: app/graph/graph.py *)

\* ctx = state.get("updated_context") or state.get("convo_context") or {}
NodeCtx(st) == IF st.has_updated THEN st.updated_context ELSE st.convo_context

\* a reply that also marks the conversation open-ended
ReplyOnly_rekeyed(st, q) ==
    _persist_context(SetReply(st, q),
                     [Said(NodeCtx(st), q) EXCEPT !.last_question_key = "OPEN_ENDED"])

\* the paths that reply q and leave last_question_key alone
ReplyOnly(st, q) == _persist_context(SetReply(st, q), Said(NodeCtx(st), q))

\* the paths that reply q and set last_question_key
ReplyAndAsk(st, q, key) ==
    _persist_context(SetReply(st, q),
                     [Said(NodeCtx(st), q) EXCEPT !.last_question_key = key])

\* the agent was called, and what it raised if it did
Tried(st, what, r) ==
    [Called(st, what) EXCEPT !.fault = IF r.kind = "ok" THEN NoFault ELSE r]

\* state.setdefault("results", {}); state["results"][domain] = data
SetResult(st, domain, data) == [st EXCEPT !.results[domain] = data]

\* the names of e.suggestions[:5]
SuggestionsShown(e) == FirstN(e.suggestions, 5)

FlightsRequired == <<"origin", "destination", "date">>

node_flights(st, api, loc) ==
    LET s == st.slots
        missing == Missing(FlightsRequired, s)
        r == run_flights_agent(s["origin"], s["destination"], s["date"], api)
        called == Tried(st, "flights", r)
        data == r.items[1]
        stored == SetResult(called, "flights", data)
        resolved == _resolve_country_from_destination(stored, loc)
    IN  IF missing # <<>>
        THEN ReplyOnly(st, Reply("flights_missing", "", <<>>, missing))
        ELSE IF r.kind = "unknown" /\ r.suggestions # <<>>
        THEN ReplyOnly(called, Reply("flights_did_you_mean", r.query, <<>>, SuggestionsShown(r)))
        ELSE IF r.kind = "unknown"
        THEN ReplyOnly(called, Reply("flights_unknown_location", r.query, <<>>, <<>>))
        ELSE IF r.kind = "error"
        THEN ReplyOnly(called, Reply("flights_error", "", <<>>, <<>>))
        ELSE IF data.cheapest = <<>>
        THEN ReplyOnly(stored, Reply("flights_none", "", <<>>, <<>>))
        ELSE ReplyAndAsk(resolved,
                         Reply("flights_ok", "", data.cheapest,
                               <<resolved.slots["origin"], resolved.slots["destination"],
                                 resolved.slots["date"]>>),
                         "AFTER_FLIGHT_NEXT_STEP")

HotelsRequired == <<"city", "checkin", "checkout">>

\* a choice of question that looks at the check-in date before the city
HotelsQuestion_checkinfirst(s, missing) ==
    IF InSeq("checkout", missing) /\ ~Falsy(s["city"]) /\ ~Falsy(s["checkin"])
    THEN Reply("hotels_ask_checkout", "", <<>>, <<>>)
    ELSE IF InSeq("checkin", missing)
    THEN Reply("hotels_ask_checkin", "", <<>>, <<>>)
    ELSE IF InSeq("city", missing)
    THEN Reply("hotels_ask_city", "", <<>>, <<>>)
    ELSE Reply("hotels_need", "", <<>>, missing)

\* which question node_hotels asks for the missing slots
HotelsQuestion(s, missing) ==
    IF InSeq("checkout", missing) /\ ~Falsy(s["city"]) /\ ~Falsy(s["checkin"])
    THEN Reply("hotels_ask_checkout", "", <<>>, <<>>)
    ELSE IF InSeq("checkin", missing) /\ ~Falsy(s["city"])
    THEN Reply("hotels_ask_checkin", "", <<>>, <<>>)
    ELSE IF InSeq("city", missing)
    THEN Reply("hotels_ask_city", "", <<>>, <<>>)
    ELSE Reply("hotels_need", "", <<>>, missing)

node_hotels(st, api) ==
    LET s == st.slots
        missing == Missing(HotelsRequired, s)
        r == run_hotels_agent(s["city"], s["checkin"], s["checkout"], api)
        called == Tried(st, "hotels", r)
        data == r.items[1]
        stored == SetResult(called, "hotels", data)
    IN  IF missing # <<>>
        THEN ReplyOnly(st, HotelsQuestion(s, missing))
        ELSE IF r.kind = "unknown"
        THEN ReplyOnly(called, Reply("hotels_unknown_city", r.query, <<>>, <<>>))
        ELSE IF r.kind = "error"
        THEN ReplyOnly(called, Reply("hotels_error", "", <<>>, <<>>))
        ELSE IF data.cheapest = <<>>
        THEN ReplyOnly(stored, Reply("hotels_none", "", <<>>, <<>>))
        ELSE ReplyAndAsk(stored,
                         Reply("hotels_ok", "", data.cheapest,
                               <<s["city"], s["checkin"], s["checkout"]>>),
                         "ASK_CABS_AFTER_HOTELS")

CabsRequired == <<"pickup", "dropoff">>

\* which question node_cabs asks for the missing slots
CabsQuestion(s, missing) ==
    IF InSeq("dropoff", missing) /\ ~Falsy(s["pickup"])
    THEN Reply("cabs_ask_dropoff", "", <<>>, <<>>)
    ELSE IF InSeq("pickup", missing)
    THEN Reply("cabs_ask_pickup", "", <<>>, <<>>)
    ELSE Reply("cabs_need", "", <<>>, missing)

node_cabs(st, api) ==
    LET s == st.slots
        missing == Missing(CabsRequired, s)
        r == run_cabs_agent(s["pickup"], s["dropoff"], api)
        called == Tried(st, "cabs", r)
        data == r.items[1]
        stored == SetResult(called, "cabs", data)
    IN  IF missing # <<>>
        THEN ReplyOnly(st, CabsQuestion(s, missing))
        ELSE IF r.kind = "unknown" /\ r.field = "pickup"
        THEN ReplyOnly(called, Reply("cabs_unknown_pickup", r.query, <<>>, <<>>))
        ELSE IF r.kind = "unknown"
        THEN ReplyOnly(called, Reply("cabs_unknown_dropoff", r.query, <<>>, <<>>))
        ELSE IF r.kind = "error"
        THEN ReplyOnly(called, Reply("cabs_error", "", <<>>, <<>>))
        ELSE IF data.cheapest = <<>>
        THEN ReplyOnly(stored, Reply("cabs_none", "", <<>>, <<>>))
        ELSE ReplyAndAsk(stored,
                         Reply("cabs_ok", "", data.cheapest, <<s["pickup"], s["dropoff"]>>),
                         "OPEN_ENDED")

\* a country taken from the destination text itself when no country is known
CountryOf_destination(s) ==
    Or(Or(Get(s, "country"), Get(s, "destination_country")), Get(s, "destination"))

\* country = s.get("country") or s.get("destination_country")
CountryOf(s) == Or(Get(s, "country"), Get(s, "destination_country"))

node_covid(st, api, loc) ==
    LET s0 == st.slots
        st1 == IF Falsy(CountryOf(s0)) THEN _resolve_country_from_destination(st, loc) ELSE st
        country == CountryOf(st1.slots)
        r == run_covid_agent(country, api)
        called == Tried(st1, "covid", r)
        data == r.items[1]
        stored == SetResult(called, "covid", data)
    IN  IF Falsy(country)
        THEN ReplyAndAsk(st1, Reply("covid_missing_country", "", <<>>, <<>>),
                         "ASK_COVID_COUNTRY")
        ELSE IF r.kind = "error"
        THEN ReplyOnly(called, Reply("covid_error", country, <<>>, <<>>))
        ELSE ReplyAndAsk(stored, Reply("covid_ok", data.location, <<>>, <<>>),
                         "ASK_HOTEL_AFTER_COVID")

----------------------------------------------------------------------------
(* The /chat handler and the graph: app/server.py, build_graph *)

T_blank == <<" ">>

\* the "message" of a request body
Bodies ==
    { T_hotel, T_covid, <<" ", "N", "o">>, T_jan20, T_fly, T_cab, T_yes, T_blank }

Init ==
    /\ conv = EmptyContext
    /\ messages = <<>>
    /\ pc = "idle"
    /\ state = NewState(<<>>, EmptyContext)
    /\ turns = 0
    /\ last = NewState(<<>>, EmptyContext)

\* chat(), up to graph.invoke: a blank message is answered 400 and changes nothing
ChatBegin ==
    /\ pc = "idle"
    /\ turns < MaxTurns
    /\ \E body \in Bodies :
          LET user_input == strip(body)
          IN  /\ user_input # <<>>
              /\ messages' = Append(messages, UserEntry(user_input))
              /\ state' = NewState(user_input, conv)
    /\ pc' = "master"
    /\ turns' = turns + 1
    /\ UNCHANGED <<conv, last>>

\* the entry point "master" and the conditional edges out of it
GraphMaster ==
    /\ pc = "master"
    /\ \E loc \in ResolveOutcomes, resp \in LlmOutcomes(state.user_input) :
          LET out == node_master_llm(state, loc, resp)
          IN  /\ state' = out
              /\ pc' = IF out.raised THEN "raised"
                       ELSE IF node_route(out) = "ask_user" THEN "END"
                       ELSE node_route(out)
    /\ UNCHANGED <<conv, messages, turns, last>>

GraphFlights ==
    /\ pc = "flights"
    /\ \E api \in FlightsApi, loc \in ResolveOutcomes : state' = node_flights(state, api, loc)
    /\ pc' = "END"
    /\ UNCHANGED <<conv, messages, turns, last>>

GraphHotels ==
    /\ pc = "hotels"
    /\ \E api \in HotelsApi : state' = node_hotels(state, api)
    /\ pc' = "END"
    /\ UNCHANGED <<conv, messages, turns, last>>

GraphCabs ==
    /\ pc = "cabs"
    /\ \E api \in CabsApi : state' = node_cabs(state, api)
    /\ pc' = "END"
    /\ UNCHANGED <<conv, messages, turns, last>>

GraphCovid ==
    /\ pc = "covid"
    /\ \E api \in CovidApi, loc \in ResolveOutcomes : state' = node_covid(state, api, loc)
    /\ pc' = "END"
    /\ UNCHANGED <<conv, messages, turns, last>>

\* chat(), after graph.invoke returned: persist the memory, store the assistant message
ChatEnd ==
    /\ pc = "END"
    /\ conv' = IF state.has_updated THEN state.updated_context ELSE conv
    /\ messages' = Append(messages, AssistantEntry(state.reply))
    /\ last' = state
    /\ pc' = "idle"
    /\ UNCHANGED <<state, turns>>

\* chat(), when graph.invoke raised: the session is closed, nothing more is stored
ChatRaise ==
    /\ pc = "raised"
    /\ last' = state
    /\ pc' = "idle"
    /\ UNCHANGED <<conv, messages, state, turns>>

Next ==
    \/ ChatBegin
    \/ GraphMaster
    \/ GraphFlights
    \/ GraphHotels
    \/ GraphCabs
    \/ GraphCovid
    \/ ChatEnd
    \/ ChatRaise

Spec == Init /\ [][Next]_vars

----------------------------------------------------------------------------
(* The graph with substituted lookup capabilities: the agents take any          *)
(* FlightsProvider / HotelsProvider / CabsProvider (app/providers/base.py)      *)

Suggestions2 == <<"S1", "S2">>

Suggestions6 == <<"S1", "S2", "S3", "S4", "S5", "S6">>

\* providers that raise UnknownLocationError with suggestions
StubFlightsApi == { Api("stub", "origin", Suggestions2), Api("stub", "destination", Suggestions6) }

StubHotelsApi == { Api("stub", "city", Suggestions2) }

StubCabsApi == { Api("stub", "pickup", Suggestions2), Api("stub", "dropoff", Suggestions6) }

GraphFlightsStub ==
    /\ pc = "flights"
    /\ \E api \in FlightsApi \cup StubFlightsApi, loc \in ResolveOutcomes :
          state' = node_flights(state, api, loc)
    /\ pc' = "END"
    /\ UNCHANGED <<conv, messages, turns, last>>

GraphHotelsStub ==
    /\ pc = "hotels"
    /\ \E api \in HotelsApi \cup StubHotelsApi : state' = node_hotels(state, api)
    /\ pc' = "END"
    /\ UNCHANGED <<conv, messages, turns, last>>

GraphCabsStub ==
    /\ pc = "cabs"
    /\ \E api \in CabsApi \cup StubCabsApi : state' = node_cabs(state, api)
    /\ pc' = "END"
    /\ UNCHANGED <<conv, messages, turns, last>>

NextStub ==
    \/ ChatBegin
    \/ GraphMaster
    \/ GraphFlightsStub
    \/ GraphHotelsStub
    \/ GraphCabsStub
    \/ GraphCovid
    \/ ChatEnd
    \/ ChatRaise

SpecStub == Init /\ [][NextStub]_vars

----------------------------------------------------------------------------
(* Concurrent /chat requests of one conversation: the server is threaded and     *)
(* chat() takes no lock.  Here pc, state and last hold one value per request,    *)
(* and turns counts the requests begun and notes whether two were in flight at   *)
(* the same time.                                                                *)

MaxRequests == 2

Requests == 1..MaxRequests

\* the "message" of the concurrent requests
ConcBodies == { T_hotel, T_fly, T_cab, T_covid }

\* what the providers answer the concurrent requests: the longest result list
ConcOutcomes(apis) == { api \in apis : api.kind = "data" /\ Len(api.raw) # 1 }

InitConc ==
    /\ conv = EmptyContext
    /\ messages = <<>>
    /\ pc = [r \in Requests |-> "idle"]
    /\ state = [r \in Requests |-> NewState(<<>>, EmptyContext)]
    /\ turns = [begun |-> 0, overlapped |-> FALSE]
    /\ last = [r \in Requests |-> NewState(<<>>, EmptyContext)]

\* the request is between its first and its last commit
InFlight(r) == pc[r] \notin {"idle", "done"}

\* chat(): the user message is stored and committed; requests are numbered in
\* the order of their arrival
ConcBegin(r) ==
    /\ pc[r] = "idle"
    /\ r = turns.begun + 1
    /\ \E body \in ConcBodies :
          LET user_input == strip(body)
          IN  /\ user_input # <<>>
              /\ messages' = Append(messages, UserEntry(user_input))
              /\ state' = [state EXCEPT ![r] = NewState(user_input, EmptyContext)]
    /\ pc' = [pc EXCEPT ![r] = "stored"]
    /\ turns' = [begun |-> turns.begun + 1,
                 overlapped |-> turns.overlapped \/ \E o \in Requests \ {r} : InFlight(o)]
    /\ UNCHANGED <<conv, last>>

\* a load that never sees what earlier requests wrote
ConcLoad_blank(r) ==
    /\ pc[r] = "stored"
    /\ state' = [state EXCEPT ![r] = NewState(state[r].user_input, EmptyContext)]
    /\ pc' = [pc EXCEPT ![r] = "master"]
    /\ UNCHANGED <<conv, messages, turns, last>>

\* ctx = conv.context or {}: the row, expired by the commit, is read again
ConcLoad(r) ==
    /\ pc[r] = "stored"
    /\ state' = [state EXCEPT ![r] = NewState(state[r].user_input, conv)]
    /\ pc' = [pc EXCEPT ![r] = "master"]
    /\ UNCHANGED <<conv, messages, turns, last>>

ConcMaster(r) ==
    /\ pc[r] = "master"
    /\ \E loc \in ResolveOutcomes, resp \in LlmOutcomes(state[r].user_input) :
          LET out == node_master_llm(state[r], loc, resp)
          IN  /\ state' = [state EXCEPT ![r] = out]
              /\ pc' = [pc EXCEPT ![r] = IF out.raised THEN "raised"
                                          ELSE IF node_route(out) = "ask_user" THEN "END"
                                          ELSE node_route(out)]
    /\ UNCHANGED <<conv, messages, turns, last>>

ConcFlights(r) ==
    /\ pc[r] = "flights"
    /\ \E api \in ConcOutcomes(FlightsApi), loc \in ResolveOutcomes :
          state' = [state EXCEPT ![r] = node_flights(state[r], api, loc)]
    /\ pc' = [pc EXCEPT ![r] = "END"]
    /\ UNCHANGED <<conv, messages, turns, last>>

ConcHotels(r) ==
    /\ pc[r] = "hotels"
    /\ \E api \in ConcOutcomes(HotelsApi) : state' = [state EXCEPT ![r] = node_hotels(state[r], api)]
    /\ pc' = [pc EXCEPT ![r] = "END"]
    /\ UNCHANGED <<conv, messages, turns, last>>

ConcCabs(r) ==
    /\ pc[r] = "cabs"
    /\ \E api \in ConcOutcomes(CabsApi) : state' = [state EXCEPT ![r] = node_cabs(state[r], api)]
    /\ pc' = [pc EXCEPT ![r] = "END"]
    /\ UNCHANGED <<conv, messages, turns, last>>

ConcCovid(r) ==
    /\ pc[r] = "covid"
    /\ \E api \in ConcOutcomes(CovidApi), loc \in ResolveOutcomes :
          state' = [state EXCEPT ![r] = node_covid(state[r], api, loc)]
    /\ pc' = [pc EXCEPT ![r] = "END"]
    /\ UNCHANGED <<conv, messages, turns, last>>

\* conv.context = updated_ctx; db.commit(): the whole column is written
ConcPersist(r) ==
    /\ pc[r] = "END"
    /\ conv' = IF state[r].has_updated THEN state[r].updated_context ELSE conv
    /\ pc' = [pc EXCEPT ![r] = "persisted"]
    /\ UNCHANGED <<messages, state, turns, last>>

\* the assistant message is stored and the response returned
ConcReply(r) ==
    /\ pc[r] = "persisted"
    /\ messages' = Append(messages, AssistantEntry(state[r].reply))
    /\ last' = [last EXCEPT ![r] = state[r]]
    /\ pc' = [pc EXCEPT ![r] = "done"]
    /\ UNCHANGED <<conv, state, turns>>

\* graph.invoke raised
ConcRaise(r) ==
    /\ pc[r] = "raised"
    /\ last' = [last EXCEPT ![r] = state[r]]
    /\ pc' = [pc EXCEPT ![r] = "done"]
    /\ UNCHANGED <<conv, messages, state, turns>>

NextConc ==
    \E r \in Requests :
        \/ ConcBegin(r)
        \/ ConcLoad(r)
        \/ ConcMaster(r)
        \/ ConcFlights(r)
        \/ ConcHotels(r)
        \/ ConcCabs(r)
        \/ ConcCovid(r)
        \/ ConcPersist(r)
        \/ ConcReply(r)
        \/ ConcRaise(r)

SpecConc == InitConc /\ [][NextConc]_vars

----------------------------------------------------------------------------
(* Two conversations and the process-wide flights provider: conversation A's     *)
(* turn is run twice on the same inputs, once in a process that serves nobody    *)
(* else ("A_alone") and once in a process that also serves conversation B        *)
(* ("A_beside").  Here conv, state and last hold one value per run, pc one per   *)
(* conversation, and messages and turns one per process: turns is the provider's *)
(* _cache.                                                                       *)

Runs == {"A_alone", "A_beside", "B"}

\* the runs that a step of conversation c moves
Copies(c) == IF c = "A" THEN {"A_alone", "A_beside"} ELSE {"B"}

\* the process a run belongs to
ProcessOf(run) == IF run = "A_alone" THEN "alone" ELSE "beside"

\* len(raw) == 3 and raw.isalpha()
IataLike(raw) == raw \in {"DEL", "BOM", "del", "bom"}

\* raw.upper() of a code
UpperIata(raw) == IF raw = "del" THEN "DEL" ELSE IF raw = "bom" THEN "BOM" ELSE raw

\* (s or "").strip().lower()
_norm(s) ==
    CASE s = "Delhi" -> "delhi"
      [] s = "Mumbai" -> "mumbai"
      [] Falsy(s) -> ""
      [] OTHER -> s

\* what the location search answers for the two keywords at the time of a turn:
\* the code of the best candidate, or NONE when it gives no candidate (a
\* ResponseError is swallowed into an empty list)
LocationAnswers == [ {"Delhi", "Mumbai"} -> {"DEL", "BOM", NONE} ]

Candidate(answers, raw) == IF raw \in DOMAIN answers THEN answers[raw] ELSE NONE

\* _resolve_to_iata: the code, or UnknownLocationError, and the cache afterwards;
\* the cache is the set of its <<key, code>> items
_resolve_to_iata(cache, text, answers) ==
    LET raw == text
        key == _norm(raw)
        hit == { kv \in cache : kv[1] = key }
        code == Candidate(answers, raw)
    IN  IF Falsy(raw) THEN [ok |-> FALSE, code |-> NONE, cache |-> cache]
        ELSE IF IataLike(raw) THEN [ok |-> TRUE, code |-> UpperIata(raw), cache |-> cache]
        ELSE IF hit # {} THEN [ok |-> TRUE, code |-> (CHOOSE kv \in hit : TRUE)[2], cache |-> cache]
        ELSE IF code = NONE THEN [ok |-> FALSE, code |-> NONE, cache |-> cache]
        ELSE [ok |-> TRUE, code |-> code, cache |-> cache \cup {<<key, code>>}]

\* search_flights up to the offers request: what the provider ends with, given
\* the answer api of the offers search, and the cache afterwards
ResolveBoth(cache, s, answers, api) ==
    LET o == _resolve_to_iata(cache, s["origin"], answers)
        d == _resolve_to_iata(o.cache, s["destination"], answers)
    IN  IF Missing(FlightsRequired, s) # <<>> THEN [api |-> api, cache |-> cache]
        ELSE IF ~o.ok THEN [api |-> Api("unknown", "origin", <<>>), cache |-> o.cache]
        ELSE IF ~d.ok THEN [api |-> Api("unknown", "destination", <<>>), cache |-> d.cache]
        ELSE [api |-> api, cache |-> d.cache]

\* the answers of the offers search
OffersApi == { api \in FlightsApi : api.kind # "unknown" }

InitIso ==
    /\ conv = [run \in Runs |-> EmptyContext]
    /\ messages = [p \in {"alone", "beside"} |-> <<>>]
    /\ pc = [c \in {"A", "B"} |-> "idle"]
    /\ state = [run \in Runs |-> NewState(<<>>, EmptyContext)]
    /\ turns = [p \in {"alone", "beside"} |-> {}]
    /\ last = [run \in Runs |-> NewState(<<>>, EmptyContext)]

IsoBegin(c) ==
    /\ pc[c] = "idle"
    /\ LET user_input == strip(T_fly)
       IN  /\ messages' = [p \in DOMAIN messages |->
                              IF \E run \in Copies(c) : ProcessOf(run) = p
                              THEN Append(messages[p], UserEntry(user_input))
                              ELSE messages[p]]
           /\ state' = [run \in Runs |->
                           IF run \in Copies(c) THEN NewState(user_input, conv[run])
                           ELSE state[run]]
    /\ pc' = [pc EXCEPT ![c] = "master"]
    /\ UNCHANGED <<conv, turns, last>>

IsoMaster(c) ==
    /\ pc[c] = "master"
    /\ \E loc \in ResolveOutcomes, resp \in LlmOutcomes(T_fly) :
          LET out == [run \in Runs |->
                        IF run \in Copies(c) THEN node_master_llm(state[run], loc, resp)
                        ELSE state[run]]
              one == CHOOSE run \in Copies(c) : TRUE
          IN  /\ state' = out
              /\ pc' = [pc EXCEPT ![c] = IF out[one].raised THEN "raised"
                                          ELSE IF node_route(out[one]) = "ask_user" THEN "END"
                                          ELSE node_route(out[one])]
    /\ UNCHANGED <<conv, messages, turns, last>>

IsoFlights(c) ==
    /\ pc[c] = "flights"
    /\ \E answers \in LocationAnswers, api \in OffersApi, loc \in ResolveOutcomes :
          LET found == [run \in Copies(c) |->
                          ResolveBoth(turns[ProcessOf(run)], state[run].slots, answers, api)]
          IN  /\ state' = [run \in Runs |->
                              IF run \in Copies(c)
                              THEN node_flights(state[run], found[run].api, loc)
                              ELSE state[run]]
              /\ turns' = [p \in DOMAIN turns |->
                              IF \E run \in Copies(c) : ProcessOf(run) = p
                              THEN found[CHOOSE run \in Copies(c) : ProcessOf(run) = p].cache
                              ELSE turns[p]]
    /\ pc' = [pc EXCEPT ![c] = "END"]
    /\ UNCHANGED <<conv, messages, last>>

IsoEnd(c) ==
    /\ pc[c] = "END"
    /\ conv' = [run \in Runs |->
                  IF run \in Copies(c) /\ state[run].has_updated
                  THEN state[run].updated_context ELSE conv[run]]
    /\ messages' = [p \in DOMAIN messages |->
                      IF \E run \in Copies(c) : ProcessOf(run) = p
                      THEN Append(messages[p],
                                  AssistantEntry(state[CHOOSE run \in Copies(c) :
                                                           ProcessOf(run) = p].reply))
                      ELSE messages[p]]
    /\ last' = [run \in Runs |-> IF run \in Copies(c) THEN state[run] ELSE last[run]]
    /\ pc' = [pc EXCEPT ![c] = "done"]
    /\ UNCHANGED <<state, turns>>

IsoRaise(c) ==
    /\ pc[c] = "raised"
    /\ last' = [run \in Runs |-> IF run \in Copies(c) THEN state[run] ELSE last[run]]
    /\ pc' = [pc EXCEPT ![c] = "done"]
    /\ UNCHANGED <<conv, messages, state, turns>>

NextIso ==
    \E c \in {"A", "B"} :
        \/ IsoBegin(c)
        \/ IsoMaster(c)
        \/ IsoFlights(c)
        \/ IsoEnd(c)
        \/ IsoRaise(c)

SpecIso == InitIso /\ [][NextIso]_vars

----------------------------------------------------------------------------
(* The yes/no classifiers applied to texts: state holds the text and the word    *)
(* it was written from, last what each classifier returned for it.               *)

MaxPad == 2

\* the words the texts are written from: the vocabularies and some other texts
YesNoWords ==
    { T_yes, T_y, T_sure, T_ok, T_okay, T_haan, T_yeah, T_yep, T_ha, T_ji, T_please_do,
      T_no, T_n, T_nope, T_nah, T_na, T_not_now, T_dont, T_don_t,
      T_hotel, <<>>,
      <<"y", "e", "s", " ", "n", "o">>, <<"n", "o", " ", "o", "k">>,
      <<"n", "o", "o", "n">>, <<"n", "o", "\t", "y", "e", "s">>,
      <<"o", "k", "a", "y", "s">>, <<"n", "o", ",", " ", "s", "u", "r", "e">> }

\* str.upper() on one character
UpperChar(c) ==
    IF \E p \in Letters : p[2] = c THEN (CHOOSE p \in Letters : p[2] = c)[1] ELSE c

\* the word as typed: as it is, in capitals, or with a capital first letter
Cased(w, how) ==
    [i \in 1..Len(w) |->
        IF how = "upper" \/ (how = "title" /\ i = 1) THEN UpperChar(w[i]) ELSE w[i]]

\* n whitespace characters
Pad(n, ch) == [i \in 1..n |-> ch]

Unset == "<unset>"

\* a bool as last keeps it
Bool(b) == IF b THEN "True" ELSE "False"

InitYesNo ==
    /\ \E w \in YesNoWords, how \in {"lower", "upper", "title"},
          l \in 0..MaxPad, r \in 0..MaxPad, ch \in Whitespace :
          state = [word |-> w, text |-> Pad(l, ch) \o Cased(w, how) \o Pad(r, Space)]
    /\ last = [yes |-> Unset, no |-> Unset, planner |-> Unset, intent |-> Unset]
    /\ pc = "text"
    /\ conv = EmptyContext
    /\ messages = <<>>
    /\ turns = 0

\* graph.py: _looks_like_yes and _looks_like_no
ClassifyGraph ==
    /\ last.yes = Unset
    /\ last' = [last EXCEPT !.yes = Bool(_looks_like_yes(state.text)),
                            !.no = Bool(_looks_like_no(state.text))]
    /\ UNCHANGED <<conv, messages, pc, state, turns>>

\* dialogue_manager.py: _extract_yes_no
ClassifyPlanner ==
    /\ last.planner = Unset
    /\ last' = [last EXCEPT !.planner = _extract_yes_no(state.text)]
    /\ UNCHANGED <<conv, messages, pc, state, turns>>

\* intent.py: normalize_yes_no
ClassifyIntent ==
    /\ last.intent = Unset
    /\ last' = [last EXCEPT !.intent = normalize_yes_no(state.text)]
    /\ UNCHANGED <<conv, messages, pc, state, turns>>

NextYesNo ==
    \/ ClassifyGraph
    \/ ClassifyPlanner
    \/ ClassifyIntent

SpecYesNo == InitYesNo /\ [][NextYesNo]_vars

----------------------------------------------------------------------------
(* The turns after a flight search that found an offer: the conversation starts  *)
(* with the after-flight question pending.                                       *)

T_covid_hotel == <<"c", "o", "v", "i", "d", " ", "h", "o", "t", "e", "l">>

T_hotel_cases == <<"H", "o", "t", "e", "l", " ", "c", "a", "s", "e", "s">>

T_Sure == <<"S", "u", "r", "e">>

T_no_hotel == <<"n", "o", " ", "h", "o", "t", "e", "l">>

\* the "message" of the follow-up requests
FollowBodies ==
    { T_yes, T_Sure, T_hotel, T_no_hotel, T_covid, T_covid_hotel, T_hotel_cases,
      <<" ", "N", "o">>, T_nah, T_fly, T_cab }

\* the requests that asked for a flight with all slots and got an offer
FlightFound ==
    { st \in { node_flights(
                  node_master_llm(NewState(T_fly, EmptyContext), loc,
                                  Llm("dict", "flights", FlightSlots, NONE)),
                  api, loc) : api \in FlightsApi, loc \in ResolveOutcomes } :
        st.updated_context.last_question_key = "AFTER_FLIGHT_NEXT_STEP" }

InitFollow ==
    \E st \in FlightFound :
        /\ conv = st.updated_context
        /\ messages = <<UserEntry(T_fly), AssistantEntry(st.reply)>>
        /\ pc = "idle"
        /\ state = st
        /\ turns = 1
        /\ last = st

FollowBegin ==
    /\ pc = "idle"
    /\ turns < MaxTurns
    /\ \E body \in FollowBodies :
          LET user_input == strip(body)
          IN  /\ user_input # <<>>
              /\ messages' = Append(messages, UserEntry(user_input))
              /\ state' = NewState(user_input, conv)
    /\ pc' = "master"
    /\ turns' = turns + 1
    /\ UNCHANGED <<conv, last>>

NextFollow ==
    \/ FollowBegin
    \/ GraphMaster
    \/ GraphFlights
    \/ GraphHotels
    \/ GraphCabs
    \/ GraphCovid
    \/ ChatEnd
    \/ ChatRaise

SpecFollow == InitFollow /\ [][NextFollow]_vars

----------------------------------------------------------------------------
(* The provider searches applied to offer responses: state holds the prices of   *)
(* the response's offers, last what each search that was made ended with.       *)

MaxOffers == 3

\* the price fields of a response: a number, None, or a text that is no number
ResponsePrices == {3000, 4000, NoPrice, BadPrice}

\* the flight or transfer offers of a response with the prices ps
OffersOf(ps) == [i \in 1..Len(ps) |-> Offer(i, ps[i])]

\* the hotel items of a response: item i has an offer priced ps[i] and one priced
\* as the next item's
ItemsOf(ps) ==
    [i \in 1..Len(ps) |-> HotelItem(i, <<ps[i], ps[(i % Len(ps)) + 1]>>)]

InitSearch ==
    /\ \E n \in 0..MaxOffers : state \in [1..n -> ResponsePrices]
    /\ last = [flights |-> <<>>, hotels |-> <<>>, cabs |-> <<>>]
    /\ pc = "response"
    /\ conv = EmptyContext
    /\ messages = <<>>
    /\ turns = 0

SearchFlights ==
    /\ last.flights = <<>>
    /\ last' = [last EXCEPT !.flights = <<
                    search_flights("Delhi", "Mumbai", "2026-01-15",
                                   Api("data", "", OffersOf(state))) >>]
    /\ UNCHANGED <<conv, messages, pc, state, turns>>

SearchHotels ==
    /\ last.hotels = <<>>
    /\ last' = [last EXCEPT !.hotels = <<
                    search_hotels("Pune", "2026-01-15", "2026-01-20",
                                  Api("data", "", ItemsOf(state))) >>]
    /\ UNCHANGED <<conv, messages, pc, state, turns>>

SearchCabs ==
    /\ last.cabs = <<>>
    /\ last' = [last EXCEPT !.cabs = <<
                    search_cabs("Mumbai Airport", "Taj", Api("data", "", OffersOf(state))) >>]
    /\ UNCHANGED <<conv, messages, pc, state, turns>>

NextSearch ==
    \/ SearchFlights
    \/ SearchHotels
    \/ SearchCabs

SpecSearch == InitSearch /\ [][NextSearch]_vars

----------------------------------------------------------------------------
(* The hotels and cabs nodes on every state of their required slots *)

\* what s.get(k) can be for a required slot: no key, None, "", or a value
SlotStates(value) == {ABSENT, NONE, "", value}

\* the slot maps the two nodes are tried on
RequiredSlotStates ==
    { SlotsOf({<<"city", c>>, <<"checkin", i>>, <<"checkout", o>>,
               <<"pickup", p>>, <<"dropoff", d>>}) :
        c \in SlotStates("Pune"), i \in SlotStates("2026-01-15"),
        o \in SlotStates("2026-01-20"), p \in SlotStates("Mumbai Airport"),
        d \in SlotStates("Taj") }

InitDispatch ==
    /\ \E s \in RequiredSlotStates : state = [NewState("hotel", EmptyContext) EXCEPT !.slots = s]
    /\ last = [hotels |-> <<>>, cabs |-> <<>>]
    /\ pc = "routed"
    /\ conv = EmptyContext
    /\ messages = <<>>
    /\ turns = 0

\* node_hotels on the slots
DispatchHotels ==
    /\ last.hotels = <<>>
    /\ \E api \in HotelsApi : last' = [last EXCEPT !.hotels = << node_hotels(state, api) >>]
    /\ UNCHANGED <<conv, messages, pc, state, turns>>

\* node_cabs on the slots
DispatchCabs ==
    /\ last.cabs = <<>>
    /\ \E api \in CabsApi : last' = [last EXCEPT !.cabs = << node_cabs(state, api) >>]
    /\ UNCHANGED <<conv, messages, pc, state, turns>>

NextDispatch ==
    \/ DispatchHotels
    \/ DispatchCabs

SpecDispatch == InitDispatch /\ [][NextDispatch]_vars

----------------------------------------------------------------------------
(* What the last finished request did *)

\* a request has finished and none is in flight
Done == pc = "idle" /\ turns > 0

\* the memory that request started from
Pre == last.convo_context

Null(v) == v \in {ABSENT, NONE}

Consulted(what) == InSeq(what, last.calls)

LookupNames == {"flights", "hotels", "cabs", "covid"}

NoLookup == \A i \in 1..Len(last.calls) : last.calls[i] \notin LookupNames

\* the replies that ask for a missing required slot
MissingSlotKinds ==
    {"flights_missing", "hotels_ask_checkout", "hotels_ask_checkin", "hotels_ask_city",
     "hotels_need", "cabs_ask_dropoff", "cabs_ask_pickup", "cabs_need"}

\* the reply that reports a successful lookup of the domain
OkKind(d) ==
    CASE d = "flights" -> "flights_ok"
      [] d = "hotels" -> "hotels_ok"
      [] d = "cabs" -> "cabs_ok"
      [] d = "covid" -> "covid_ok"

QuestionKeys ==
    {"AFTER_FLIGHT_NEXT_STEP", "ASK_CABS_AFTER_HOTELS", "ASK_HOTEL_AFTER_COVID",
     "ASK_COVID_COUNTRY", "ASK_USER", "OPEN_ENDED"}

----------------------------------------------------------------------------
(* Claims *)

\* C1: after every turn, each slot that had a non-null value in memory before the
\* turn and is not among the slot keys the turn wrote has the same value in the
\* memory written back.  Violated: a no-word or an unrecognized reply to the
\* after-flight offer persists an empty slots dict.
C1_SlotsKept ==
    Done =>
        \A k \in SlotKeys :
            (~Null(Pre.slots[k]) /\ k \notin last.deltas) => conv.slots[k] = Pre.slots[k]

\* C2: a result payload a successful lookup stored for a domain is still in memory
\* after a later turn that performs no successful lookup for that domain.
\* Violated: every turn persists only the results of its own lookups.
C2_ResultsRetained ==
    Done =>
        \A d \in Domains :
            (Pre.results[d].present /\ last.reply.kind # OkKind(d))
                => conv.results[d] = Pre.results[d]

\* C3: a turn whose lookup for a domain fails or returns zero results leaves
\* results[domain] in memory as it was before the turn.  Violated: a lookup that
\* returns an empty list stores its payload, and a failing one drops the entry.
C3_FailureKeepsResults ==
    Done =>
        \A d \in Domains :
            (Consulted(d) /\ last.reply.kind # OkKind(d))
                => conv.results[d] = Pre.results[d]

\* C4: between turns the persisted history has at most 30 entries and is the last
\* min(30, n) of the n user and assistant messages of the conversation.
\* Violated: the user message of a turn whose planner call raised is in the
\* conversation's messages and never in the history.
C4_HistoryIsSuffix ==
    pc = "idle" =>
        /\ Len(conv.history) <= HistoryCap
        /\ conv.history = LastN(messages, HistoryCap)

\* C5: every turn ends with a reply and with its updated memory persisted, also when
\* the planning oracle fails or returns malformed output.  Violated: an oracle call
\* that raises, or that returns JSON that is not an object, ends the request with
\* an exception.
C5_EveryTurnReplies ==
    Done =>
        /\ ~last.raised
        /\ last.reply # NoReply
        /\ last.has_updated
        /\ conv = last.updated_context
        /\ messages[Len(messages)] = AssistantEntry(last.reply)

\* the reply is neither a covid reply, a hotel/yes reply nor a no-word
Unrecognized(text) == ~_wants_covid(text) /\ ~_wants_hotel(text) /\ ~_looks_like_no(text)

\* C6: a turn that starts with last_question_key = AFTER_FLIGHT_NEXT_STEP never calls
\* the planning oracle; an unrecognized reply gets the narrowed prompt, calls no
\* lookup and leaves last_question_key = AFTER_FLIGHT_NEXT_STEP.
C6_AfterFlightDeterministic ==
    /\ (pc # "idle" /\ state.convo_context.last_question_key = "AFTER_FLIGHT_NEXT_STEP")
           => ~InSeq("llm", state.calls)
    /\ (Done /\ Pre.last_question_key = "AFTER_FLIGHT_NEXT_STEP") =>
           /\ ~Consulted("llm")
           /\ ~last.raised
           /\ Unrecognized(last.user_input) =>
                  /\ last.reply = Q_unclear
                  /\ messages[Len(messages)] = AssistantEntry(Q_unclear)
                  /\ NoLookup
                  /\ conv.last_question_key = "AFTER_FLIGHT_NEXT_STEP"

\* C6 witness: an unrecognized reply to the after-flight offer has been answered
C6_Witness ==
    /\ Done
    /\ Pre.last_question_key = "AFTER_FLIGHT_NEXT_STEP"
    /\ Unrecognized(last.user_input)
    /\ last.reply = Q_unclear

\* C7: when the check-out date was asked for, a next turn whose text is a bare date
\* sets checkout to that date, clears last_question_key and calls the hotels
\* lookup.  Violated: the question leaves AFTER_FLIGHT_NEXT_STEP pending, so the
\* date is answered "reply with: hotel / covid / or no".
C7_CheckoutDateAccepted ==
    (/\ Done
     /\ Pre.last_reply.kind = "hotels_ask_checkout"
     /\ ~Null(extract_checkout_if_only_date(last.user_input)))
        => /\ conv.slots["checkout"] = extract_checkout_if_only_date(last.user_input)
           /\ Null(conv.last_question_key)
           /\ Consulted("hotels")

\* C8: after a turn that asks for a missing required slot, last_question_key names
\* that question when it is the check-out question and is null otherwise.
\* Violated: the missing-slot replies leave last_question_key as it was.
C8_MissingSlotKey ==
    (Done /\ last.reply.kind \in MissingSlotKinds) =>
        IF last.reply.kind = "hotels_ask_checkout"
        THEN ~Null(conv.last_question_key) /\ conv.last_question_key \notin QuestionKeys
        ELSE Null(conv.last_question_key)

\* C9: after a turn whose flights lookup returned an offer, the reply shows the
\* cheapest one, last_question_key is AFTER_FLIGHT_NEXT_STEP and memory holds
\* city = destination and checkin = date.  Violated: node_flights seeds no hotel slot.
C9_FlightsSeedHotel ==
    (Done /\ last.reply.kind = "flights_ok") =>
        /\ last.reply.offer = conv.results["flights"].cheapest
        /\ conv.last_question_key = "AFTER_FLIGHT_NEXT_STEP"
        /\ conv.slots["city"] = conv.slots["destination"]
        /\ conv.slots["checkin"] = conv.slots["date"]

\* C10: "hotel" in reply to the offer of a successful flights result resolves to
\* hotels without the oracle, with city = the flight's destination and checkin =
\* the flight's date.  Violated: a city already in memory is kept.
C10_HotelUsesFlight ==
    (/\ Done
     /\ Pre.last_question_key = "AFTER_FLIGHT_NEXT_STEP"
     /\ Pre.last_reply.kind = "flights_ok"
     /\ lower(strip(last.user_input)) = T_hotel)
        => /\ last.llm_action = "hotels"
           /\ ~Consulted("llm")
           /\ last.slots["city"] = Pre.last_reply.opts[2]
           /\ last.slots["checkin"] = Pre.last_reply.opts[3]

\* the questions that hand over to another domain, and the domain each offers first
HandoffKeys == {"AFTER_FLIGHT_NEXT_STEP", "ASK_CABS_AFTER_HOTELS", "ASK_HOTEL_AFTER_COVID"}

PrimaryDomain(key) ==
    CASE key = "AFTER_FLIGHT_NEXT_STEP" -> "hotels"
      [] key = "ASK_CABS_AFTER_HOTELS" -> "cabs"
      [] key = "ASK_HOTEL_AFTER_COVID" -> "hotels"

\* C11: a bare "yes" in the turn after a hand-off question (after flights, after
\* hotels, after the covid figures) resolves to the domain the question offers
\* first (hotels, cabs, hotels) without a call of the planning oracle.
\* Violated: only AFTER_FLIGHT_NEXT_STEP is handled before the planner; "yes" to
\* the other two questions is sent to the chat model.
C11_YesFromTag ==
    (/\ Done
     /\ Pre.last_question_key \in HandoffKeys
     /\ _looks_like_yes(last.user_input))
        => /\ ~Consulted("llm")
           /\ ~last.raised
           /\ last.llm_action = PrimaryDomain(Pre.last_question_key)

\* the Python str of a message text
Verbatim(t) ==
    CASE t = T_jan20 -> "jan 20 2026"
      [] t = T_hotel -> "hotel"
      [] t = T_covid -> "covid"
      [] t = T_fly -> "fly"
      [] t = T_cab -> "cab"
      [] t = T_yes -> "yes"
      [] OTHER -> "No"

\* f"{city} Airport"
CityAirport(city) ==
    CASE city = "Pune" -> "Pune Airport"
      [] city = "Mumbai" -> "Mumbai Airport"
      [] OTHER -> NONE

\* the turn before the last one was a "yes" to the cab offer of a hotels result
AfterYesToCabOffer ==
    LET h == Pre.history
        n == Len(h)
    IN  /\ n >= 3
        /\ h[n - 2].role = "assistant" /\ h[n - 2].reply.kind = "hotels_ok"
        /\ h[n - 1].role = "user" /\ _looks_like_yes(h[n - 1].text)

\* C12: "yes" to the cab offer of a successful hotels result leads, without the
\* oracle and without a lookup, to a select-which-hotel question of its own; the
\* text of the turn after that is taken verbatim as dropoff, pickup becomes
\* "<city> Airport" and the cabs lookup is called with these two.
\* Violated: there is no such state; "yes" goes to the chat model and the key
\* becomes ASK_USER or stays ASK_CABS_AFTER_HOTELS.
C12_SelectHotelForCab ==
    /\ (/\ Done
        /\ Pre.last_question_key = "ASK_CABS_AFTER_HOTELS"
        /\ Pre.last_reply.kind = "hotels_ok"
        /\ _looks_like_yes(last.user_input))
           => /\ ~Consulted("llm")
              /\ NoLookup
              /\ ~Null(conv.last_question_key)
              /\ conv.last_question_key \notin QuestionKeys
    /\ (Done /\ AfterYesToCabOffer)
           => /\ Consulted("cabs")
              /\ last.slots["dropoff"] = Verbatim(last.user_input)
              /\ last.slots["pickup"] = CityAirport(Pre.slots["city"])

\* the domains whose lookup returns priced offers
OfferDomains == {"flights", "hotels", "cabs"}

\* x is a cheapest element of items, and the first of those with its price
FirstCheapest(x, items) ==
    \E i \in 1..Len(items) :
        /\ items[i] = x
        /\ \A j \in 1..Len(items) : items[j].price >= x.price
        /\ \A j \in 1..(i - 1) : items[j].price # x.price

Required(d) ==
    CASE d = "flights" -> FlightsRequired
      [] d = "hotels" -> HotelsRequired
      [] d = "cabs" -> CabsRequired

\* the slots a missing-slot reply asks the user for
Asked(q) ==
    CASE q.kind \in {"flights_missing", "hotels_need", "cabs_need"} -> q.opts
      [] q.kind = "hotels_ask_city" -> <<"city">>
      [] q.kind = "hotels_ask_checkin" -> <<"checkin">>
      [] q.kind = "hotels_ask_checkout" -> <<"checkout">>
      [] q.kind = "cabs_ask_pickup" -> <<"pickup">>
      [] q.kind = "cabs_ask_dropoff" -> <<"dropoff">>
      [] OTHER -> <<>>

\* C14: when a turn is routed to flights, hotels or cabs with a required slot
\* missing, the reply asks for exactly one slot, the first missing one in the
\* order of the required list.  Violated: node_flights names every missing slot
\* in one reply.
C14_AsksFirstMissing ==
    Done =>
        \A d \in OfferDomains :
            (~last.raised /\ last.llm_action = d /\ Missing(Required(d), last.slots) # <<>>)
                => Asked(last.reply) = <<Missing(Required(d), last.slots)[1]>>

\* what the lookup of a domain needs is there: each required slot non-empty; for
\* covid the country value the node works with
RequiredPresent(d, s) ==
    IF d = "covid" THEN ~Falsy(CountryOf(s))
    ELSE \A i \in 1..Len(Required(d)) : ~Falsy(s[Required(d)[i]])

\* C15: a turn calls the lookup of a domain only with every required slot of the
\* domain non-empty (for covid: with a country value), and a turn routed to a
\* domain whose required slots are all non-empty does call its lookup.
C15_LookupIffSlots ==
    Done =>
        \A d \in Domains :
            /\ Consulted(d) => (last.llm_action = d /\ RequiredPresent(d, last.slots))
            /\ (~last.raised /\ last.llm_action = d /\ RequiredPresent(d, last.slots))
                   => Consulted(d)

\* C15 witness: a cabs turn whose slots were complete called the lookup, after a
\* turn that was routed to cabs without a drop-off and called none
C15_Witness ==
    /\ Done
    /\ Pre.last_reply.kind = "cabs_ask_dropoff"
    /\ last.llm_action = "cabs"
    /\ RequiredPresent("cabs", last.slots)
    /\ Consulted("cabs")

\* C16: a turn routed to covid while the destination slot is known never asks the
\* user for a country, whatever the location-to-country resolution does.
\* Violated: when the resolution fails or gives no country code, node_covid asks
\* for the country name.
C16_NeverAsksCountry ==
    (/\ Done
     /\ ~last.raised
     /\ last.llm_action = "covid"
     /\ ~Falsy(Get(last.slots, "destination")))
        => last.reply.kind # "covid_missing_country"

\* the replies that ask for a clarified location
ClarifyKinds ==
    {"flights_unknown_location", "hotels_unknown_city", "cabs_unknown_pickup",
     "cabs_unknown_dropoff"}

\* C17: when the flights, hotels or cabs lookup raises an unresolved-location error
\* with n >= 1 suggestions, the reply lists the first min(n, 5) of them in order;
\* with none, the reply asks for a clarified location; in both cases a results
\* entry of the domain that was unset stays unset.  Violated: node_hotels and
\* node_cabs never list the suggestions of the error.
C17_SuggestionsListed ==
    Done =>
        \A d \in OfferDomains :
            (Consulted(d) /\ last.fault.kind = "unknown") =>
                /\ Len(last.fault.suggestions) >= 1
                       => last.reply.opts = FirstN(last.fault.suggestions, 5)
                /\ Len(last.fault.suggestions) = 0 => last.reply.kind \in ClarifyKinds
                /\ ~Pre.results[d].present => ~conv.results[d].present

\* the output of the chat model gives no usable action: it is no JSON, no JSON
\* object, or an object whose action is missing or not a known one
BadOutput(o) ==
    \/ o.kind \in {"garbage", "list"}
    \/ Falsy(o.action)
    \/ o.action \notin Actions

\* C18: for every output of the planning oracle the action the turn is routed by
\* is one of flights, hotels, cabs, covid, ask_user; when the output has no
\* action, an unknown one, or cannot be parsed, the action is ask_user, no lookup
\* is called and the reply is a non-empty clarifying question.  Violated: an
\* output that is JSON but no object makes plan.get raise (the defect of C5).
C18_ActionClamped ==
    (Done /\ Consulted("llm") /\ last.oracle.kind # "raise") =>
        /\ ~last.raised
        /\ last.llm_action \in Actions
        /\ BadOutput(last.oracle) =>
               /\ last.llm_action = "ask_user"
               /\ NoLookup
               /\ last.reply.kind = "ask_user"
               /\ last.reply.text # ""

\* the reply that reports a lookup without a result
NoneKind(d) ==
    CASE d = "flights" -> "flights_none"
      [] d = "hotels" -> "hotels_none"
      [] d = "cabs" -> "cabs_none"

\* C19: a turn whose flights, hotels or cabs lookup succeeds with no result
\* replies "nothing found" and leaves last_question_key in the persisted memory
\* as it was when the turn started.
C19_NoneKeepsQuestion ==
    Done =>
        \A d \in OfferDomains :
            (Consulted(d) /\ last.results[d].present /\ last.results[d].items = <<>>)
                => /\ last.reply.kind = NoneKind(d)
                   /\ messages[Len(messages)] = AssistantEntry(last.reply)
                   /\ conv.last_question_key = Pre.last_question_key

\* C19 witness: a hotels lookup found nothing while the after-flight question was
\* pending, and the question is still pending
C19_Witness ==
    /\ Done
    /\ Consulted("hotels")
    /\ last.reply.kind = "hotels_none"
    /\ Pre.last_question_key = "AFTER_FLIGHT_NEXT_STEP"
    /\ conv.last_question_key = "AFTER_FLIGHT_NEXT_STEP"

\* a slot value with "no key" and None taken as the same
Val(v) == IF Null(v) THEN NONE ELSE v

\* the slots no step after the merge writes
MergedKeys ==
    SlotKeys \ {"country", "destination_country", "destination_country_code"}

\* C20: after the planner returned slot deltas, each slot is the delta's value
\* when that is non-null and the old value otherwise; a null delta never
\* replaces an existing value.  Violated: dict.update copies a None of the
\* delta over the remembered value.
C20_MergeSkipsNull ==
    (Done /\ Consulted("llm") /\ ~last.raised) =>
        \A k \in MergedKeys :
            Val(last.slots[k]) =
                IF ~Null(last.oracle.slots[k]) THEN last.oracle.slots[k]
                ELSE Val(Pre.slots[k])

\* date.fromisoformat(d), as the day of January 2026 it is
DayOf(d) ==
    CASE d = "2026-01-15" -> 15
      [] d = "2026-01-20" -> 20
      [] OTHER -> 0

\* C21: the hotels lookup is only ever called with a checkout date strictly after
\* the checkin date.  Violated: node_hotels and search_hotels test only that the
\* three slots are non-empty.
C21_CheckoutAfterCheckin ==
    (Done /\ Consulted("hotels"))
        => DayOf(last.slots["checkout"]) > DayOf(last.slots["checkin"])

\* C22: after a turn whose covid lookup succeeded, the reply is the one that ends
\* by offering a hotel, last_question_key is ASK_HOTEL_AFTER_COVID, and city,
\* checkin and checkout are in memory as they were before the turn unless the
\* user's message gave them.
C22_CovidSeedsNothing ==
    (Done /\ Consulted("covid") /\ last.results["covid"].present) =>
        /\ last.reply.kind = "covid_ok"
        /\ messages[Len(messages)] = AssistantEntry(last.reply)
        /\ conv.last_question_key = "ASK_HOTEL_AFTER_COVID"
        /\ \A k \in {"city", "checkin", "checkout"} :
               k \notin Keys(last.oracle.slots) => conv.slots[k] = Pre.slots[k]

\* C22 witness: "covid" chosen after a flights result, the figures fetched, no
\* hotel city in memory before or after
C22_Witness ==
    /\ Done
    /\ Pre.last_question_key = "AFTER_FLIGHT_NEXT_STEP"
    /\ last.reply.kind = "covid_ok"
    /\ ~Falsy(Get(conv.slots, "destination"))
    /\ Null(Pre.slots["city"])
    /\ Null(conv.slots["city"])

\* no flights lookup of the conversation has returned so far
NoPriorFlights ==
    \A i \in 1..Len(messages) : messages[i].reply.kind \notin {"flights_ok", "flights_none"}

\* the slots the planner path hands to the domain node
DispatchSlots == Update(Pre.slots, last.oracle.slots)

\* the turn is a covid request with no country slot and no flights result before it
CovidWithoutCountry ==
    /\ Done
    /\ ~last.raised
    /\ last.llm_action = "covid"
    /\ NoPriorFlights
    /\ Falsy(Get(DispatchSlots, "country"))

\* the turn derived a country from the destination
CountryDerived == "destination_country_code" \in last.deltas

LookupsCalled == SelectSeq(last.calls, LAMBDA c : c \in LookupNames)

\* the assistant messages stored for the conversation
AssistantMessages == SelectSeq(messages, LAMBDA m : m.role = "assistant")

\* C24: every turn calls at most one domain lookup and produces exactly one
\* reply.  Violated through the defect of C5: a turn whose planner call raises
\* produces no reply.
C24_OneLookupOneReply ==
    pc = "idle" =>
        /\ Len(LookupsCalled) <= 1
        /\ Len(AssistantMessages) = turns
        /\ turns > 0 => (last.reply # NoReply /\ messages[Len(messages)] = AssistantEntry(last.reply))

\* s is an initial part of t
IsPrefix(s, t) == Len(s) <= Len(t) /\ SubSeq(t, 1, Len(s)) = s

\* every request has ended
AllDone == \A r \in Requests : pc[r] = "done"

\* the memory request r wrote is no longer part of the persisted memory
LostUpdate(r) ==
    /\ last[r].has_updated
    /\ ~IsPrefix(last[r].updated_context.history, conv.history)

\* C25: when the requests of a conversation were processed one after the other,
\* the history every one of them wrote is part of the persisted memory; requests
\* that interleave can lose one (the witness).
C25_SerializedKeepsBoth ==
    (AllDone /\ ~turns.overlapped) => \A r \in Requests : ~LostUpdate(r)

\* C25 witness: two requests interleaved, both replied, and the persisted memory
\* lacks the history entries one of them wrote
C25_Witness ==
    /\ AllDone
    /\ turns.overlapped
    /\ \A r \in Requests : last[r].has_updated /\ last[r].reply # NoReply
    /\ \E r \in Requests : LostUpdate(r)
    /\ Len(conv.history) = 2
    /\ Len(messages) = 4

\* C26: the turn of conversation A ends with the same reply and the same
\* persisted memory whether or not the process also served conversation B.
C26_ConversationsIndependent ==
    pc["A"] = "done" =>
        /\ last["A_alone"].reply = last["A_beside"].reply
        /\ conv["A_alone"] = conv["A_beside"]

\* the answer of the two tests of graph.py taken together
GraphAnswer(yes, no) == IF yes = "True" THEN "yes" ELSE IF no = "True" THEN "no" ELSE NONE

\* the answers given so far for the text
Answers ==
    {last.planner, last.intent} \cup
    (IF last.yes = Unset THEN {} ELSE {GraphAnswer(last.yes, last.no)})

\* C27: no text is classified both yes and no; a text written from a yes-word
\* (no-word) in any letter case and with whitespace around it is classified yes
\* (no); and every text is classified as its word in lower case without the
\* whitespace is.
C27_YesNoTernary ==
    /\ ~(last.yes = "True" /\ last.no = "True")
    /\ ~({"yes", "no"} \subseteq Answers)
    /\ last.yes # Unset =>
          /\ (state.word \in {T_yes, T_y, T_sure, T_ok, T_okay, T_haan, T_yeah, T_yep}
                 => last.yes = "True")
          /\ (state.word \in {T_no, T_n, T_nope, T_nah} => last.no = "True")
          /\ last.yes = Bool(_looks_like_yes(state.word))
          /\ last.no = Bool(_looks_like_no(state.word))
    /\ last.planner # Unset =>
          /\ (state.word \in {T_y, T_yes, T_yeah, T_yep, T_sure, T_ok, T_okay, T_haan, T_ha,
                               T_ji, T_please_do} => last.planner = "yes")
          /\ (state.word \in {T_n, T_no, T_nope, T_nah, T_not_now, T_dont, T_don_t}
                 => last.planner = "no")
          /\ last.planner = _extract_yes_no(state.word)
    /\ last.intent # Unset =>
          /\ (state.word \in YES => last.intent = "yes")
          /\ (state.word \in NO => last.intent = "no")
          /\ last.intent = normalize_yes_no(state.word)

\* C27 witness: a no-word typed with a capital and whitespace on both sides has
\* been classified no by all three classifiers
C27_Witness ==
    /\ state.word = T_nope
    /\ state.text # state.word
    /\ lower(state.text) # state.text
    /\ Head(state.text) \in Whitespace
    /\ state.text[Len(state.text)] = Space
    /\ last.yes = "False" /\ last.no = "True"
    /\ last.planner = "no"
    /\ last.intent = "no"

\* the request answered the pending after-flight question
FollowUp == Done /\ ~last.raised /\ Pre.last_question_key = "AFTER_FLIGHT_NEXT_STEP"

\* the follow-up texts with a covid keyword, those without one that contain
\* "hotel" or are a yes-word, and those that are a no-word
CovidTexts == {T_covid, T_covid_hotel, T_hotel_cases}

HotelTexts == {T_yes, T_Sure, T_hotel, T_no_hotel}

NoTexts == {<<"N", "o">>, T_nah}

\* C28: with the after-flight question pending, a reply with a covid keyword is
\* routed to the covid node even if it contains "hotel"; otherwise a reply that
\* contains "hotel" or is a yes-word is routed to the hotels node; otherwise a
\* no-word calls nothing and leaves OPEN_ENDED pending; any other reply gets the
\* "hotel / covid / or no" question again.
C28_FollowUpPrecedence ==
    FollowUp =>
        /\ last.user_input \in CovidTexts =>
              last.llm_action = "covid" /\ ~Consulted("hotels")
        /\ last.user_input \in HotelTexts =>
              last.llm_action = "hotels" /\ ~Consulted("covid")
        /\ last.user_input \in NoTexts =>
              /\ last.calls = <<>>
              /\ last.reply = Q_no
              /\ conv.last_question_key = "OPEN_ENDED"
        /\ last.user_input \notin CovidTexts \cup HotelTexts \cup NoTexts =>
              /\ last.calls = <<>>
              /\ last.reply = Q_unclear
              /\ conv.last_question_key = "AFTER_FLIGHT_NEXT_STEP"

\* C28 witness: "covid hotel" answered the after-flight question and the covid
\* lookup was called
C28_Witness ==
    /\ FollowUp
    /\ last.user_input = T_covid_hotel
    /\ last.llm_action = "covid"
    /\ Consulted("covid")

\* the request chose covid in answer to the after-flight question while the
\* memory held a country
CovidChosenWithCountry ==
    /\ FollowUp
    /\ last.llm_action = "covid"
    /\ ~Falsy(Get(Pre.slots, "country"))

\* C29: when covid is chosen in answer to the after-flight question and the
\* country slot is already filled, the turn leaves the country slot as it was.
\* Violated: the covid branch of node_master_llm resolves the country from the
\* destination whether or not one is set, and a resolved country replaces it.
C29_CountryKept ==
    CovidChosenWithCountry => conv.slots["country"] = Pre.slots["country"]

\* the request called the flights lookup, got an offer, and the country
\* resolution that followed wrote no country
OfferWithoutCountry ==
    /\ Done
    /\ ~last.raised
    /\ Consulted("flights")
    /\ last.fault = NoFault
    /\ last.results["flights"].cheapest # <<>>
    /\ "destination_country_code" \notin last.deltas

\* C30: when the flights lookup returns an offer and the country resolution
\* fails or finds no country, the success reply with the cheapest offer is
\* given, AFTER_FLIGHT_NEXT_STEP is pending, results.flights is stored and the
\* slots are those the node was dispatched with.
C30_ResolutionFailureHarmless ==
    OfferWithoutCountry =>
        /\ last.reply.kind = "flights_ok"
        /\ last.reply.offer = last.results["flights"].cheapest
        /\ conv.last_question_key = "AFTER_FLIGHT_NEXT_STEP"
        /\ conv.results["flights"].present
        /\ conv.results["flights"] = last.results["flights"]
        /\ conv.slots = DispatchSlots

\* C30 witness: an offer was found, the resolution was tried and wrote nothing,
\* and the slots include one the memory already held
C30_Witness ==
    /\ OfferWithoutCountry
    /\ Consulted("resolve_country")
    /\ last.reply.kind = "flights_ok"
    /\ conv.slots["country"] = "Nepal"
    /\ conv.slots["destination_country"] = ABSENT

\* the request went through the planner, the chat model answered with an object,
\* and the request completed
OraclePath == Done /\ ~last.raised /\ last.oracle.kind = "dict"

\* the slots _resolve_country_from_destination wrote in the request
ResolvedKeys ==
    IF "destination_country_code" \in last.deltas
    THEN {"country", "destination_country", "destination_country_code"}
    ELSE {}

\* C31: a completed planner turn persists every slot the chat model returned,
\* also when the action is ask_user, and keeps every slot of the memory that the
\* chat model did not return; so slots given over several turns add up.
C31_OracleSlotsStored ==
    OraclePath =>
        \A k \in SlotKeys \ ResolvedKeys :
            conv.slots[k] = IF last.oracle.slots[k] # ABSENT THEN last.oracle.slots[k]
                            ELSE Pre.slots[k]

\* C31 witness: the city was given in an earlier turn, this turn's action is
\* ask_user and its checkout is in memory beside the city
C31_Witness ==
    /\ OraclePath
    /\ last.llm_action = "ask_user"
    /\ last.oracle.slots["checkout"] = "2026-01-20"
    /\ Pre.slots["city"] = "Pune"
    /\ Pre.slots["checkout"] = ABSENT
    /\ conv.slots["city"] = "Pune"
    /\ conv.slots["checkout"] = "2026-01-20"

\* the search returned a list in non-decreasing price order, every offer of it
\* with a number as price, of n offers
ReturnedPriced(r, n) ==
    /\ r.kind = "ok"
    /\ Len(r.items) = n
    /\ \A i \in 1..Len(r.items) : r.items[i].price \notin {NoPrice, BadPrice}
    /\ \A i, j \in 1..Len(r.items) : i < j => r.items[i].price <= r.items[j].price

\* how many of the response's offers (hotel items) have a price that is a number
Parseable == Cardinality({i \in 1..Len(state) : state[i] \notin {NoPrice, BadPrice}})

ParseableItems ==
    Cardinality({i \in 1..Len(state) :
                    {state[i], state[(i % Len(state)) + 1]} \ {NoPrice, BadPrice} # {}})

\* C32: each provider search returns the offers that have a parseable price, in
\* non-decreasing price order, and drops the others.
\* Violated: search_flights drops only the offers whose price is None and calls
\* float() on the others unguarded, so a price that is no number ends the whole
\* search with an exception.
C32_SortedAndPriced ==
    /\ last.flights # <<>> => ReturnedPriced(last.flights[1], Parseable)
    /\ last.hotels # <<>> => ReturnedPriced(last.hotels[1], ParseableItems)
    /\ last.cabs # <<>> => ReturnedPriced(last.cabs[1], Parseable)

\* the same for the two searches that guard the conversion: hotels and cabs
HotelsCabsSortedAndPriced ==
    /\ last.hotels # <<>> => ReturnedPriced(last.hotels[1], ParseableItems)
    /\ last.cabs # <<>> => ReturnedPriced(last.cabs[1], Parseable)

\* C33: the chat model is called in a request exactly when the question pending
\* at its start is not AFTER_FLIGHT_NEXT_STEP: the planner, when called, never
\* answers from its own after-flight branch or its flights-result fast path.
C33_OracleIffNotAfterFlight ==
    Done => (Consulted("llm") <=> Pre.last_question_key # "AFTER_FLIGHT_NEXT_STEP")

\* C33 witness: "hotel" after the after-flight offer was declined goes to the
\* chat model
C33_Witness ==
    /\ Done
    /\ Pre.last_question_key = "OPEN_ENDED"
    /\ Pre.slots["destination"] = "Mumbai"
    /\ last.user_input = T_hotel
    /\ Consulted("llm")

\* the values last_question_key is given
PendingKeys ==
    {"AFTER_FLIGHT_NEXT_STEP", "ASK_CABS_AFTER_HOTELS", "ASK_HOTEL_AFTER_COVID",
     "ASK_COVID_COUNTRY", "ASK_USER", "OPEN_ENDED"}

\* the key the reply of the request sets, ABSENT when it sets none
KeySet(kind) ==
    CASE kind = "flights_ok" -> "AFTER_FLIGHT_NEXT_STEP"
      [] kind = "hotels_ok" -> "ASK_CABS_AFTER_HOTELS"
      [] kind = "cabs_ok" -> "OPEN_ENDED"
      [] kind = "covid_ok" -> "ASK_HOTEL_AFTER_COVID"
      [] kind = "covid_missing_country" -> "ASK_COVID_COUNTRY"
      [] kind = "ask_user" -> "ASK_USER"
      [] kind = "after_flight_no" -> "OPEN_ENDED"
      [] OTHER -> ABSENT

\* C34: last_question_key in the persisted memory is absent or one of the six
\* keys, and a request changes it only by a flights, hotels, cabs or covid
\* success, a covid request with no country, a planner ask_user and a no-word
\* reply to the after-flight offer, each to its own key; every other request
\* (missing slot, failed lookup, no result, unclear reply, exception) leaves it.
C34_PendingKeyEvents ==
    /\ conv.last_question_key \in PendingKeys \cup {ABSENT}
    /\ Done =>
          conv.last_question_key =
              IF KeySet(last.reply.kind) # ABSENT THEN KeySet(last.reply.kind)
              ELSE Pre.last_question_key

\* C34 witness: a hotels lookup without a priced offer left the key of the covid
\* turn before it
C34_Witness ==
    /\ Done
    /\ last.reply.kind = "hotels_none"
    /\ Pre.last_question_key = "ASK_HOTEL_AFTER_COVID"
    /\ conv.last_question_key = "ASK_HOTEL_AFTER_COVID"

\* the request began with the after-flight offer pending
OfferPending == Done /\ Pre.last_question_key = "AFTER_FLIGHT_NEXT_STEP"

\* C35: a request that begins and ends with AFTER_FLIGHT_NEXT_STEP pending neither
\* adds nor changes the checkout slot of the memory, and a request that begins
\* with it pending and no checkout in memory calls no hotels lookup; so from an
\* offer made without a checkout no hotels lookup is called before another
\* event has changed the key.
C35_OfferKeepsCheckout ==
    OfferPending =>
        /\ conv.last_question_key = "AFTER_FLIGHT_NEXT_STEP" =>
              conv.slots["checkout"] = Pre.slots["checkout"]
        /\ Falsy(Pre.slots["checkout"]) => ~Consulted("hotels")

\* the request returned from graph.invoke
Completed == Done /\ ~last.raised

\* user and assistant entries alternate and the last one is the assistant's
Alternates(h) ==
    /\ \A i \in 1..(Len(h) - 1) : h[i].role # h[i + 1].role
    /\ h # <<>> => h[Len(h)].role = "assistant"

\* C36: a completed request appends to the history one user entry with its text
\* and then one assistant entry with its reply (the history cut to its last 30),
\* and last_reply of the persisted memory is that reply; the persisted history
\* alternates user and assistant entries and ends with an assistant entry.
C36_HistoryPairs ==
    /\ Completed =>
          /\ conv.history =
                 LastN(Pre.history \o <<UserEntry(last.user_input), AssistantEntry(last.reply)>>,
                       HistoryCap)
          /\ last.reply # NoReply
          /\ conv.last_reply = last.reply
    /\ Alternates(conv.history)

\* C36 witness: the third request of a conversation completed with a dispatcher's
\* question and the history holds three pairs
C36_Witness ==
    /\ Completed
    /\ Len(Pre.history) = 4
    /\ Len(conv.history) = 6
    /\ last.reply.kind = "hotels_ask_checkout"
    /\ conv.history[6] = AssistantEntry(last.reply)

\* the domains whose lookup was called by the request and returned
Returned == {d \in Domains : Consulted(d) /\ last.fault = NoFault}

\* the domain keys of a results mapping
ResultKeys(results) == {d \in Domains : results[d] # NoResult}

\* a completed request persists the results of its own lookup and nothing else
CompletedResultsOwn ==
    Completed =>
        /\ Cardinality(Returned) <= 1
        /\ ResultKeys(conv.results) = Returned

\* C37: after every request the results mapping of the persisted memory has at
\* most one domain key, the domain whose lookup returned in this request, and
\* it is empty after a request that completed no lookup.
C37_ResultsOfThisTurn ==
    Done =>
        /\ Cardinality(ResultKeys(conv.results)) <= 1
        /\ ResultKeys(conv.results) = Returned

\* the single-field question of each required slot of hotels and cabs
AskKind(k) ==
    CASE k = "city" -> "hotels_ask_city"
      [] k = "checkin" -> "hotels_ask_checkin"
      [] k = "checkout" -> "hotels_ask_checkout"
      [] k = "pickup" -> "cabs_ask_pickup"
      [] k = "dropoff" -> "cabs_ask_dropoff"

\* the node ran on slots of which some required one is missing, and asked for the
\* first missing one in the order of required
AsksFirstOf(made, required) ==
    (made # <<>> /\ Missing(required, state.slots) # <<>>) =>
        /\ made[1].reply.kind = AskKind(Head(Missing(required, state.slots)))
        /\ made[1].calls = <<>>

\* C38: for every state of the required slots in which one is missing, node_hotels
\* asks the single-field question of the first missing slot in the order city,
\* checkin, checkout and node_cabs that of the first in the order pickup,
\* dropoff; neither ever replies with the generic "I need: ..." question.
C38_FallbackUnreachable ==
    /\ AsksFirstOf(last.hotels, HotelsRequired)
    /\ AsksFirstOf(last.cabs, CabsRequired)
    /\ last.hotels # <<>> => last.hotels[1].reply.kind # "hotels_need"
    /\ last.cabs # <<>> => last.cabs[1].reply.kind # "cabs_need"

\* C38 witness: with only the check-in date known, hotels asked for the city and
\* cabs for the pickup
C38_Witness ==
    /\ pc = "routed"
    /\ Missing(HotelsRequired, state.slots) = <<"city", "checkout">>
    /\ Missing(CabsRequired, state.slots) = <<"pickup", "dropoff">>
    /\ last.hotels # <<>> /\ last.hotels[1].reply.kind = "hotels_ask_city"
    /\ last.cabs # <<>> /\ last.cabs[1].reply.kind = "cabs_ask_pickup"

====
